---- MODULE Spec2Model ----
(***************************************************************************)
(* Model of the risk subsystem of the adaptive multi-strategy engine:      *)
(* RiskManager and CircuitBreaker of                                       *)
(* user_data/strategies/adaptive/risk_manager.py.                          *)
(*                                                                         *)
(* Python floats are modelled as exact rationals <<n, d>> in lowest terms  *)
(* with d > 0.  datetime.now() is the variable now, in minutes; one model  *)
(* step of an operation reads a single value of the clock.                 *)
(***************************************************************************)
EXTENDS Integers, Sequences, FiniteSets, TLC

(***************************************************************************)
(* Rational arithmetic                                                     *)
(***************************************************************************)
Abs(x) == IF x < 0 THEN -x ELSE x

RECURSIVE GCD(_, _)
GCD(a, b) == IF b = 0 THEN a ELSE GCD(b, a % b)

R(n, d) ==
    LET s == IF d < 0 THEN -1 ELSE 1
        g == GCD(Abs(n), Abs(d))
    IN  <<(s * n) \div g, (s * d) \div g>>

RAdd(x, y) ==
    LET g == GCD(x[2], y[2])
    IN  R(x[1] * (y[2] \div g) + y[1] * (x[2] \div g), (x[2] \div g) * y[2])

RNeg(x) == <<-x[1], x[2]>>

RSub(x, y) == RAdd(x, RNeg(y))

RMul(x, y) ==
    LET g1 == GCD(Abs(x[1]), y[2])
        g2 == GCD(Abs(y[1]), x[2])
        a1 == IF g1 = 0 THEN 1 ELSE g1
        a2 == IF g2 = 0 THEN 1 ELSE g2
    IN  R((x[1] \div a1) * (y[1] \div a2), (x[2] \div a2) * (y[2] \div a1))

\* x / y, for y # 0
RDiv(x, y) == RMul(x, R(y[2], y[1]))

RLt(x, y) ==
    LET g == GCD(x[2], y[2])
    IN  x[1] * (y[2] \div g) < y[1] * (x[2] \div g)

RLeq(x, y) == x = y \/ RLt(x, y)

RMin(x, y) == IF RLt(y, x) THEN y ELSE x

RMax(x, y) == IF RLt(x, y) THEN y ELSE x

RAbs(x) == <<Abs(x[1]), x[2]>>

Zero == <<0, 1>>

One == <<1, 1>>

(***************************************************************************)
(* Python dict: a function whose domain is the set of keys present         *)
(***************************************************************************)
EmptyDict == [k \in {} |-> 0]

Get(d, k, default) == IF k \in DOMAIN d THEN d[k] ELSE default

Put(d, k, v) == [x \in (DOMAIN d) \cup {k} |-> IF x = k THEN v ELSE d[x]]

\* Optional[T]: None, or a value wrapped by Some
None == <<>>

Some(x) == <<x>>

Unwrap(o) == o[1]

(***************************************************************************)
(* Bounds of the model                                                     *)
(***************************************************************************)
\* CircuitBreaker runs: the clock starts at StartTimeCB and advances in steps
\* of TickStepCB minutes up to MaxTimeCB
TickStepCB == 5

StartTimeCB == 0

MaxTimeCB == 140

\* inputs of CircuitBreaker.check_and_trip
Volatilities == {"normal", "extreme"}

PriceChanges == {R(-11, 100), R(-10, 100), Zero, R(10, 100), R(11, 100)}

VolumeSpikes == {One, R(5, 1), R(51, 10)}

\* RiskManager runs: the manager is constructed at StartTime (23:30 of day 0),
\* the clock advances in steps of TickStep minutes up to MaxTime
StartTime == 1430

TickStep == 10

MaxTime == 1450

\* at most MaxTrades calls of record_trade in a run
MaxTrades == 2

\* update_position_count keeps each counter at most MaxPositionCount
MaxPositionCount == 2

\* inputs of the RiskManager operations
TotalCapitals == {R(1000, 1)}

StrategyNames == {"TrendFollowing", "Custom"}

Profits == {R(-16, 100), R(-4, 100), R(5, 100)}

\* the strategies whose open positions update_position_count counts
PositionNames == {"TrendFollowing"}

OpenPositions == {0, 5}

PositionDeltas == {1, -1}

Confidences == {One}

Stakes == {R(100, 1)}

StopLosses == {R(5, 100)}

\* Busy-day runs: at most MaxDayTrades trades of one strategy, of which at
\* most MaxLosses are not flat
MaxDayTrades == 8

MaxLosses == 1

DayProfits == {R(-16, 100), R(-4, 100), Zero}

\* inputs of calculate_position_size in the sizing runs
SizingNames == {"TrendFollowing", "Grid", "Custom"}

SizingConfidences == {R(-1, 1), Zero, One, R(2, 1)}

SizingStakes == {Zero, R(100, 1), R(1000, 1)}

SizingStopLosses == {Zero, R(-3, 100), R(1, 2)}

\* trades recorded in the sizing runs
SizingProfits == {R(-16, 100), R(5, 100)}

VARIABLES
    now,                    \* datetime.now(), minutes
    is_tripped,             \* CircuitBreaker.is_tripped
    trip_reason,            \* CircuitBreaker.trip_reason
    trip_time,              \* CircuitBreaker.trip_time
    portfolio_config,       \* RiskManager.portfolio_config
    trade_history,          \* RiskManager.trade_history
    daily_pnl,              \* RiskManager.daily_pnl
    last_daily_reset,       \* RiskManager.last_daily_reset
    strategy_positions,     \* RiskManager.strategy_positions
    strategy_daily_trades,  \* RiskManager.strategy_daily_trades
    strategy_last_loss,     \* RiskManager.strategy_last_loss
    peak_capital,           \* RiskManager.peak_capital
    current_capital,        \* RiskManager.current_capital
    th_pc,                  \* per thread: its position in record_trade
    th_args,                \* per thread: the arguments of its record_trade call
    th_tmp,                 \* per thread: the value it has read and not yet stored
    arms,                   \* ThompsonSamplingSelector.arms
    selection_history,      \* ThompsonSamplingSelector.selection_history
    state_file,             \* the file at ThompsonSamplingSelector.state_file
    saving,                 \* save_state has opened the file and not finished writing
    samplers,               \* ContextualBandit.samplers and default_sampler
    pt_trades,              \* PerformanceTracker.trades
    pt_files,               \* the files trades_<date>.json of PerformanceTracker.data_dir
    pt_recorded,            \* every trade passed to PerformanceTracker.record_trade so far
    pt_damage,              \* the day files a reader fails on, and at which record
    strategies,             \* StrategySelector.strategies: the names, in the order of the dict
    performance_history,    \* StrategySelector.performance_history
    ss_selection_history,   \* StrategySelector.selection_history
    last_switch_time,       \* StrategySelector.last_switch_time
    current_strategy,       \* StrategySelector.current_strategy
    last_fitness_score,     \* per sub-strategy: _last_fitness_score
    regime,                 \* AdaptiveMultiStrategy._market_condition, the regime of the cycle
    rewards,                \* EpsilonGreedySelector.rewards
    counts,                 \* EpsilonGreedySelector.counts
    df,                     \* the bars the regime detector is given, as their indicators
    last                    \* the call just made: operation, arguments, returned value

cbvars == <<is_tripped, trip_reason, trip_time>>

rmvars == <<portfolio_config, trade_history, daily_pnl, last_daily_reset,
            strategy_positions, strategy_daily_trades, strategy_last_loss,
            peak_capital, current_capital>>

thvars == <<th_pc, th_args, th_tmp>>

tsvars == <<arms, selection_history, state_file, saving>>

ctxvars == <<samplers>>

ptvars == <<pt_trades, pt_files, pt_recorded, pt_damage>>

ssvars == <<strategies, performance_history, ss_selection_history, last_switch_time,
            current_strategy, last_fitness_score, regime>>

egvars == <<rewards, counts>>

mrvars == <<df>>

\* the variables of the components other than RiskManager and CircuitBreaker
extvars == <<thvars, tsvars, ctxvars, ptvars, ssvars, egvars, mrvars>>

vars == <<now, cbvars, rmvars, extvars, last>>

(***************************************************************************)
(* CircuitBreaker                                                          *)
(***************************************************************************)
AutoResetMinutes == 60

\* CircuitBreaker.__init__
InitCB ==
    /\ is_tripped = FALSE
    /\ trip_reason = None
    /\ trip_time = None

\* variant: the timeout taken in hours instead of minutes
TimeoutElapsedHours(tripped, ttime, t) ==
    /\ tripped
    /\ ttime # None
    /\ t - Unwrap(ttime) > AutoResetMinutes * 60

\* variant: the timeout reached at exactly auto_reset_minutes (>= for >)
TimeoutElapsedInclusive(tripped, ttime, t) ==
    /\ tripped
    /\ ttime # None
    /\ t - Unwrap(ttime) >= AutoResetMinutes

\* the auto-reset test of check_and_trip
TimeoutElapsed(tripped, ttime, t) ==
    /\ tripped
    /\ ttime # None
    /\ t - Unwrap(ttime) > AutoResetMinutes

\* variant: the thresholds included (>= for >)
TripReasonInclusive(volatility, price_change_1h, volume_spike) ==
    IF volatility = "extreme" THEN <<"extreme_volatility">>
    ELSE IF RLeq(R(10, 100), RAbs(price_change_1h))
         THEN <<"flash_crash_or_pump", RMul(price_change_1h, R(100, 1))>>
    ELSE IF RLeq(R(5, 1), volume_spike)
         THEN <<"volume_anomaly", volume_spike>>
    ELSE None

\* the trip conditions of check_and_trip, in the order of the code;
\* None when no condition is met
TripReason(volatility, price_change_1h, volume_spike) ==
    IF volatility = "extreme" THEN <<"extreme_volatility">>
    ELSE IF RLt(R(10, 100), RAbs(price_change_1h))
         THEN <<"flash_crash_or_pump", RMul(price_change_1h, R(100, 1))>>
    ELSE IF RLt(R(5, 1), volume_spike)
         THEN <<"volume_anomaly", volume_spike>>
    ELSE None

\* variant: a tripped breaker trips again on inputs that meet a trip condition
CheckAndTripRefreshing(volatility, price_change_1h, volume_spike) ==
    LET expired == TimeoutElapsed(is_tripped, trip_time, now)
        tripped1 == IF expired THEN FALSE ELSE is_tripped
        reason1 == IF expired THEN None ELSE trip_reason
        time1 == IF expired THEN None ELSE trip_time
        resetlog == IF expired THEN <<<<"Circuit breaker reset", trip_reason>>>>
                    ELSE <<>>
        reason == TripReason(volatility, price_change_1h, volume_spike)
        args == <<volatility, price_change_1h, volume_spike>>
    IN  IF reason # None
        THEN /\ is_tripped' = TRUE
             /\ trip_reason' = reason
             /\ trip_time' = Some(now)
             /\ last' = [op |-> "check_and_trip", args |-> args, value |-> TRUE,
                         log |-> Append(resetlog, <<"CIRCUIT BREAKER TRIPPED", reason>>)]
        ELSE /\ is_tripped' = tripped1
             /\ trip_reason' = reason1
             /\ trip_time' = time1
             /\ last' = [op |-> "check_and_trip", args |-> args, value |-> tripped1,
                         log |-> resetlog]

\* CircuitBreaker.check_and_trip; log holds the messages the call logs:
\* that of reset() when the latch timed out, that of trip() when it trips
CheckAndTrip(volatility, price_change_1h, volume_spike) ==
    LET expired == TimeoutElapsed(is_tripped, trip_time, now)
        tripped1 == IF expired THEN FALSE ELSE is_tripped
        reason1 == IF expired THEN None ELSE trip_reason
        time1 == IF expired THEN None ELSE trip_time
        resetlog == IF expired THEN <<<<"Circuit breaker reset", trip_reason>>>>
                    ELSE <<>>
        reason == TripReason(volatility, price_change_1h, volume_spike)
        args == <<volatility, price_change_1h, volume_spike>>
    IN  IF tripped1
        THEN /\ is_tripped' = tripped1
             /\ trip_reason' = reason1
             /\ trip_time' = time1
             /\ last' = [op |-> "check_and_trip", args |-> args, value |-> TRUE,
                         log |-> resetlog]
        ELSE IF reason # None
        THEN /\ is_tripped' = TRUE
             /\ trip_reason' = reason
             /\ trip_time' = Some(now)
             /\ last' = [op |-> "check_and_trip", args |-> args, value |-> TRUE,
                         log |-> Append(resetlog, <<"CIRCUIT BREAKER TRIPPED", reason>>)]
        ELSE /\ is_tripped' = tripped1
             /\ trip_reason' = reason1
             /\ trip_time' = time1
             /\ last' = [op |-> "check_and_trip", args |-> args, value |-> FALSE,
                         log |-> resetlog]

\* CircuitBreaker.reset
Reset ==
    /\ is_tripped' = FALSE
    /\ trip_reason' = None
    /\ trip_time' = None
    /\ last' = [op |-> "reset", args |-> <<>>, value |-> None,
                log |-> <<<<"Circuit breaker reset", trip_reason>>>>]

\* CircuitBreaker.trip
Trip(reason) ==
    /\ is_tripped' = TRUE
    /\ trip_reason' = reason
    /\ trip_time' = Some(now)
    /\ last' = [op |-> "trip", args |-> <<reason>>, value |-> None,
                log |-> <<<<"CIRCUIT BREAKER TRIPPED", reason>>>>]

\* time passes between two calls
Tick(step, maxTime) ==
    /\ now + step <= maxTime
    /\ now' = now + step
    /\ last' = [op |-> "tick", args |-> <<>>, value |-> None]

(***************************************************************************)
(* RiskManager                                                             *)
(***************************************************************************)
\* PortfolioRiskConfig with the defaults of the dataclass
PortfolioRiskConfig(total_capital) ==
    [total_capital |-> total_capital,
     max_open_trades |-> 5,
     max_drawdown_pct |-> R(15, 100),
     daily_loss_limit_pct |-> R(5, 100),
     risk_per_trade_pct |-> R(2, 100)]

\* RiskManager._setup_default_strategy_configs
strategy_configs ==
    [TrendFollowing |->
        [max_capital_pct |-> R(35, 100), max_positions |-> 2,
         max_daily_trades |-> 8, max_daily_loss_pct |-> R(4, 100),
         cooldown_after_loss |-> 20, position_size_multiplier |-> One],
     Grid |->
        [max_capital_pct |-> R(40, 100), max_positions |-> 5,
         max_daily_trades |-> 15, max_daily_loss_pct |-> R(3, 100),
         cooldown_after_loss |-> 15, position_size_multiplier |-> R(8, 10)],
     MeanReversion |->
        [max_capital_pct |-> R(25, 100), max_positions |-> 3,
         max_daily_trades |-> 10, max_daily_loss_pct |-> R(3, 100),
         cooldown_after_loss |-> 25, position_size_multiplier |-> R(9, 10)]]

\* datetime.date(): the local calendar day of a time in minutes
MinutesPerDay == 1440

Date(t) == t \div MinutesPerDay

\* RiskManager.__init__
InitRM(total_capital) ==
    /\ portfolio_config = PortfolioRiskConfig(total_capital)
    /\ trade_history = <<>>
    /\ daily_pnl = Zero
    /\ last_daily_reset = now
    /\ strategy_positions = EmptyDict
    /\ strategy_daily_trades = EmptyDict
    /\ strategy_last_loss = EmptyDict
    /\ peak_capital = total_capital
    /\ current_capital = total_capital

\* RiskManager._reset_daily_counters: the values of daily_pnl,
\* strategy_daily_trades and last_daily_reset after the call
NewDay == Date(now) > Date(last_daily_reset)

ResetDailyPnl == IF NewDay THEN Zero ELSE daily_pnl

ResetDailyTrades ==
    IF NewDay THEN [k \in DOMAIN strategy_daily_trades |-> 0]
    ELSE strategy_daily_trades

ResetLastDailyReset == IF NewDay THEN now ELSE last_daily_reset

\* variant: the decline measured from the starting capital, not from the peak
CurrentDrawdownFromStart ==
    RDiv(RSub(portfolio_config.total_capital, current_capital),
         portfolio_config.total_capital)

\* (peak_capital - current_capital) / peak_capital
CurrentDrawdown == RDiv(RSub(peak_capital, current_capital), peak_capital)

\* The checks of check_position_allowed, on the counters as they are after
\* _reset_daily_counters; each is TRUE when the check blocks
PortfolioPositionsReached(current_positions) ==
    current_positions >= portfolio_config.max_open_trades

DailyLossReached(pnl) ==
    RLeq(pnl, RNeg(portfolio_config.daily_loss_limit_pct))

DrawdownReached ==
    RLeq(portfolio_config.max_drawdown_pct, CurrentDrawdown)

StrategyPositionsReached(strategy_name) ==
    Get(strategy_positions, strategy_name, 0)
        >= strategy_configs[strategy_name].max_positions

DailyTradesReached(strategy_name, trades) ==
    Get(trades, strategy_name, 0)
        >= strategy_configs[strategy_name].max_daily_trades

\* variant: a cooldown that ends with the day of the loss
InCooldownSameDay(strategy_name) ==
    /\ strategy_name \in DOMAIN strategy_last_loss
    /\ Date(now) = Date(strategy_last_loss[strategy_name])
    /\ now < strategy_last_loss[strategy_name]
                + strategy_configs[strategy_name].cooldown_after_loss

InCooldown(strategy_name) ==
    /\ strategy_name \in DOMAIN strategy_last_loss
    /\ now < strategy_last_loss[strategy_name]
                + strategy_configs[strategy_name].cooldown_after_loss

\* variant: the per-strategy checks made before the portfolio-level ones
VerdictStrategyFirst(strategy_name, current_positions, pnl, trades) ==
    IF strategy_name \in DOMAIN strategy_configs
       /\ StrategyPositionsReached(strategy_name)
    THEN <<FALSE, "Strategy max positions reached">>
    ELSE IF strategy_name \in DOMAIN strategy_configs
            /\ DailyTradesReached(strategy_name, trades)
    THEN <<FALSE, "Strategy daily trade limit reached">>
    ELSE IF strategy_name \in DOMAIN strategy_configs
            /\ InCooldown(strategy_name)
    THEN <<FALSE, "Strategy in cooldown">>
    ELSE IF PortfolioPositionsReached(current_positions)
    THEN <<FALSE, "Max portfolio positions reached">>
    ELSE IF DailyLossReached(pnl)
    THEN <<FALSE, "Daily loss limit reached">>
    ELSE IF DrawdownReached
    THEN <<FALSE, "Max drawdown reached">>
    ELSE <<TRUE, "OK">>

\* variant: a name without a config is held to the limits of TrendFollowing
VerdictDefaultConfig(strategy_name, current_positions, pnl, trades) ==
    LET config == IF strategy_name \in DOMAIN strategy_configs
                  THEN strategy_configs[strategy_name]
                  ELSE strategy_configs["TrendFollowing"]
    IN  IF PortfolioPositionsReached(current_positions)
        THEN <<FALSE, "Max portfolio positions reached">>
        ELSE IF DailyLossReached(pnl)
        THEN <<FALSE, "Daily loss limit reached">>
        ELSE IF DrawdownReached
        THEN <<FALSE, "Max drawdown reached">>
        ELSE IF Get(strategy_positions, strategy_name, 0) >= config.max_positions
        THEN <<FALSE, "Strategy max positions reached">>
        ELSE IF Get(trades, strategy_name, 0) >= config.max_daily_trades
        THEN <<FALSE, "Strategy daily trade limit reached">>
        ELSE IF /\ strategy_name \in DOMAIN strategy_last_loss
                /\ now < strategy_last_loss[strategy_name] + config.cooldown_after_loss
        THEN <<FALSE, "Strategy in cooldown">>
        ELSE <<TRUE, "OK">>

\* variant: a tripped circuit breaker refuses every position
VerdictBehindBreaker(strategy_name, current_positions, pnl, trades) ==
    IF is_tripped
    THEN <<FALSE, "Circuit breaker tripped">>
    ELSE IF PortfolioPositionsReached(current_positions)
    THEN <<FALSE, "Max portfolio positions reached">>
    ELSE IF DailyLossReached(pnl)
    THEN <<FALSE, "Daily loss limit reached">>
    ELSE IF DrawdownReached
    THEN <<FALSE, "Max drawdown reached">>
    ELSE IF strategy_name \in DOMAIN strategy_configs
    THEN IF StrategyPositionsReached(strategy_name)
         THEN <<FALSE, "Strategy max positions reached">>
         ELSE IF DailyTradesReached(strategy_name, trades)
         THEN <<FALSE, "Strategy daily trade limit reached">>
         ELSE IF InCooldown(strategy_name)
         THEN <<FALSE, "Strategy in cooldown">>
         ELSE <<TRUE, "OK">>
    ELSE <<TRUE, "OK">>

\* the value check_position_allowed returns: <<allowed, reason>>
Verdict(strategy_name, current_positions, pnl, trades) ==
    IF PortfolioPositionsReached(current_positions)
    THEN <<FALSE, "Max portfolio positions reached">>
    ELSE IF DailyLossReached(pnl)
    THEN <<FALSE, "Daily loss limit reached">>
    ELSE IF DrawdownReached
    THEN <<FALSE, "Max drawdown reached">>
    ELSE IF strategy_name \in DOMAIN strategy_configs
    THEN IF StrategyPositionsReached(strategy_name)
         THEN <<FALSE, "Strategy max positions reached">>
         ELSE IF DailyTradesReached(strategy_name, trades)
         THEN <<FALSE, "Strategy daily trade limit reached">>
         ELSE IF InCooldown(strategy_name)
         THEN <<FALSE, "Strategy in cooldown">>
         ELSE <<TRUE, "OK">>
    ELSE <<TRUE, "OK">>

\* RiskManager.check_position_allowed
check_position_allowed(strategy_name, pair, current_positions) ==
    /\ daily_pnl' = ResetDailyPnl
    /\ strategy_daily_trades' = ResetDailyTrades
    /\ last_daily_reset' = ResetLastDailyReset
    /\ last' = [op |-> "check_position_allowed",
                args |-> <<strategy_name, pair, current_positions>>,
                value |-> Verdict(strategy_name, current_positions,
                                  ResetDailyPnl, ResetDailyTrades)]
    /\ UNCHANGED <<portfolio_config, trade_history, strategy_positions,
                   strategy_last_loss, peak_capital, current_capital>>

\* variant: 0.5 + confidence
ConfidenceMultiplierWide(confidence) == RAdd(R(1, 2), confidence)

\* calculate_position_size: 0.5 + confidence * 0.5
ConfidenceMultiplier(confidence) == RAdd(R(1, 2), RMul(confidence, R(1, 2)))

\* variant: the cap at the proposed stake dropped
FinalBoundsNoCap(position_from_risk, proposed_stake) ==
    RMax(position_from_risk, RMul(proposed_stake, R(3, 10)))

\* calculate_position_size: the final bounds check
FinalBounds(position_from_risk, proposed_stake) ==
    RMax(RMin(position_from_risk, proposed_stake),
         RMul(proposed_stake, R(3, 10)))

\* variant: the exposure of the open positions not subtracted
AvailableIgnoringOpen(strategy_name, proposed_stake) ==
    RMul(current_capital, strategy_configs[strategy_name].max_capital_pct)

\* calculate_position_size: the capital headroom left to a configured strategy
Available(strategy_name, proposed_stake) ==
    LET max_strategy_capital ==
            RMul(current_capital, strategy_configs[strategy_name].max_capital_pct)
        current_strategy_exposure ==
            RMul(R(Get(strategy_positions, strategy_name, 0), 1), proposed_stake)
    IN  RSub(max_strategy_capital, current_strategy_exposure)

\* the value calculate_position_size returns
PositionSize(strategy_name, confidence, proposed_stake, entry_price, stop_loss_pct) ==
    LET configured == strategy_name \in DOMAIN strategy_configs
        risk_amount == RMul(current_capital, portfolio_config.risk_per_trade_pct)
        from_risk == IF stop_loss_pct # Zero
                     THEN RDiv(risk_amount, RAbs(stop_loss_pct))
                     ELSE proposed_stake
        with_multiplier ==
            IF configured
            THEN RMul(from_risk, strategy_configs[strategy_name].position_size_multiplier)
            ELSE from_risk
        confidence_multiplier == ConfidenceMultiplier(confidence)
        with_confidence == RMul(with_multiplier, confidence_multiplier)
        available == Available(strategy_name, proposed_stake)
        position_from_risk ==
            IF configured THEN RMin(with_confidence, available) ELSE with_confidence
    IN  FinalBounds(position_from_risk, proposed_stake)

\* RiskManager.calculate_position_size
calculate_position_size(strategy_name, confidence, proposed_stake, entry_price, stop_loss_pct) ==
    /\ last' = [op |-> "calculate_position_size",
                args |-> <<strategy_name, confidence, proposed_stake,
                           entry_price, stop_loss_pct>>,
                value |-> PositionSize(strategy_name, confidence, proposed_stake,
                                       entry_price, stop_loss_pct)]
    /\ UNCHANGED rmvars

\* variant: the peak follows the capital (max dropped)
NewPeakFollows(peak, capital) == capital

\* record_trade: peak_capital = max(peak_capital, current_capital)
NewPeak(peak, capital) == RMax(peak, capital)

\* variant: every trade counted twice
NewDailyTradesTwice(trades, strategy_name) ==
    Put(trades, strategy_name, Get(trades, strategy_name, 0) + 2)

\* record_trade: the per-strategy daily-trade counter
NewDailyTrades(trades, strategy_name) ==
    Put(trades, strategy_name,
        IF strategy_name \in DOMAIN trades THEN trades[strategy_name] + 1 ELSE 1)

\* variant: every trade, winning or losing, stamps the cooldown clock
NewLastLossAlways(losses, strategy_name, profit_pct, t) ==
    Put(losses, strategy_name, t)

\* record_trade: the cooldown clock, stamped on a loss only
NewLastLoss(losses, strategy_name, profit_pct, t) ==
    IF RLt(profit_pct, Zero) THEN Put(losses, strategy_name, t) ELSE losses

\* RiskManager.record_trade
record_trade(strategy_name, pair, profit_pct, entry_reason, exit_reason) ==
    LET record == [strategy |-> strategy_name, pair |-> pair,
                   profit_pct |-> profit_pct, timestamp |-> now,
                   entry_reason |-> entry_reason, exit_reason |-> exit_reason]
        capital == RMul(current_capital, RAdd(One, profit_pct))
    IN  /\ trade_history' = Append(trade_history, record)
        /\ daily_pnl' = RAdd(daily_pnl, profit_pct)
        /\ current_capital' = capital
        /\ peak_capital' = NewPeak(peak_capital, capital)
        /\ strategy_daily_trades' = NewDailyTrades(strategy_daily_trades, strategy_name)
        /\ strategy_last_loss' =
               NewLastLoss(strategy_last_loss, strategy_name, profit_pct, now)
        /\ last' = [op |-> "record_trade",
                    args |-> <<strategy_name, pair, profit_pct>>,
                    value |-> None]
        /\ UNCHANGED <<portfolio_config, last_daily_reset, strategy_positions>>

\* RiskManager.update_position_count
update_position_count(strategy_name, delta) ==
    LET count == Get(strategy_positions, strategy_name, 0) + delta
    IN  /\ strategy_positions' =
               Put(strategy_positions, strategy_name, IF count < 0 THEN 0 ELSE count)
        /\ last' = [op |-> "update_position_count",
                    args |-> <<strategy_name, delta>>,
                    value |-> None]
        /\ UNCHANGED <<portfolio_config, trade_history, daily_pnl, last_daily_reset,
                       strategy_daily_trades, strategy_last_loss,
                       peak_capital, current_capital>>

\* RiskManager._is_trading_allowed: on the counters as they are stored, no
\* daily reset first
IsTradingAllowed ==
    IF RLeq(portfolio_config.max_drawdown_pct, CurrentDrawdown) THEN FALSE
    ELSE IF RLeq(daily_pnl, RNeg(portfolio_config.daily_loss_limit_pct)) THEN FALSE
    ELSE TRUE

\* RiskManager._get_current_risk_level
CurrentRiskLevel ==
    IF RLt(R(10, 100), CurrentDrawdown) \/ RLt(daily_pnl, R(-3, 100)) THEN "HIGH"
    ELSE IF RLt(R(5, 100), CurrentDrawdown) \/ RLt(daily_pnl, R(-2, 100)) THEN "MEDIUM"
    ELSE "LOW"

\* RiskManager.get_risk_status
get_risk_status ==
    /\ last' = [op |-> "get_risk_status",
                args |-> <<>>,
                value |-> [current_capital |-> current_capital,
                           peak_capital |-> peak_capital,
                           drawdown_pct |-> RMul(CurrentDrawdown, R(100, 1)),
                           daily_pnl_pct |-> RMul(daily_pnl, R(100, 1)),
                           strategy_positions |-> strategy_positions,
                           daily_trades |-> strategy_daily_trades,
                           is_trading_allowed |-> IsTradingAllowed,
                           risk_level |-> CurrentRiskLevel]]
    /\ UNCHANGED rmvars

(***************************************************************************)
(* RiskManager.record_trade run by concurrent threads.  The method takes   *)
(* no lock; a thread can be preempted between reading an attribute and     *)
(* storing the value computed from it.                                     *)
(***************************************************************************)
Threads == {"T1", "T2"}

\* inputs of the concurrent calls
ThreadProfits == {R(-4, 100), R(5, 100), R(10, 100)}

InitThreads ==
    /\ th_pc = [t \in Threads |-> "idle"]
    /\ th_args = [t \in Threads |-> <<>>]
    /\ th_tmp = [t \in Threads |-> None]

\* thread t moves to position pc holding tmp
ThreadGoes(t, pc, tmp) ==
    /\ th_pc' = [th_pc EXCEPT ![t] = pc]
    /\ th_tmp' = [th_tmp EXCEPT ![t] = tmp]

\* the call is made: the TradeRecord is built and appended to trade_history
ThreadAppend(t, strategy_name, profit_pct) ==
    /\ th_pc[t] = "idle"
    /\ th_args' = [th_args EXCEPT ![t] = <<strategy_name, profit_pct>>]
    /\ trade_history' = Append(trade_history,
            [strategy |-> strategy_name, pair |-> "BTC/USDT",
             profit_pct |-> profit_pct, timestamp |-> now,
             entry_reason |-> "entry", exit_reason |-> "exit"])
    /\ ThreadGoes(t, "read_pnl", None)
    /\ UNCHANGED <<portfolio_config, daily_pnl, last_daily_reset, strategy_positions,
                   strategy_daily_trades, strategy_last_loss, peak_capital,
                   current_capital>>

\* self.daily_pnl += profit_pct
ThreadReadPnl(t) ==
    /\ th_pc[t] = "read_pnl"
    /\ ThreadGoes(t, "write_pnl", Some(daily_pnl))
    /\ UNCHANGED <<th_args, rmvars>>

ThreadWritePnl(t) ==
    /\ th_pc[t] = "write_pnl"
    /\ daily_pnl' = RAdd(Unwrap(th_tmp[t]), th_args[t][2])
    /\ ThreadGoes(t, "read_capital", None)
    /\ UNCHANGED <<th_args, portfolio_config, trade_history, last_daily_reset,
                   strategy_positions, strategy_daily_trades, strategy_last_loss,
                   peak_capital, current_capital>>

\* self.current_capital *= (1 + profit_pct)
ThreadReadCapital(t) ==
    /\ th_pc[t] = "read_capital"
    /\ ThreadGoes(t, "write_capital", Some(current_capital))
    /\ UNCHANGED <<th_args, rmvars>>

ThreadWriteCapital(t) ==
    /\ th_pc[t] = "write_capital"
    /\ current_capital' = RMul(Unwrap(th_tmp[t]), RAdd(One, th_args[t][2]))
    /\ ThreadGoes(t, "read_peak", None)
    /\ UNCHANGED <<th_args, portfolio_config, trade_history, daily_pnl,
                   last_daily_reset, strategy_positions, strategy_daily_trades,
                   strategy_last_loss, peak_capital>>

\* self.peak_capital = max(self.peak_capital, self.current_capital)
ThreadReadPeak(t) ==
    /\ th_pc[t] = "read_peak"
    /\ ThreadGoes(t, "write_peak", Some(RMax(peak_capital, current_capital)))
    /\ UNCHANGED <<th_args, rmvars>>

ThreadWritePeak(t) ==
    /\ th_pc[t] = "write_peak"
    /\ peak_capital' = Unwrap(th_tmp[t])
    /\ ThreadGoes(t, "read_count", None)
    /\ UNCHANGED <<th_args, portfolio_config, trade_history, daily_pnl,
                   last_daily_reset, strategy_positions, strategy_daily_trades,
                   strategy_last_loss, current_capital>>

\* if strategy_name in self.strategy_daily_trades: ... += 1  else: ... = 1
ThreadReadCount(t) ==
    /\ th_pc[t] = "read_count"
    /\ ThreadGoes(t, "write_count",
                  Some(IF th_args[t][1] \in DOMAIN strategy_daily_trades
                       THEN strategy_daily_trades[th_args[t][1]] + 1
                       ELSE 1))
    /\ UNCHANGED <<th_args, rmvars>>

\* the counter is stored and, on a loss, the cooldown clock is stamped
ThreadWriteCount(t) ==
    /\ th_pc[t] = "write_count"
    /\ strategy_daily_trades' =
            Put(strategy_daily_trades, th_args[t][1], Unwrap(th_tmp[t]))
    /\ strategy_last_loss' =
            NewLastLoss(strategy_last_loss, th_args[t][1], th_args[t][2], now)
    /\ ThreadGoes(t, "done", None)
    /\ UNCHANGED <<th_args, portfolio_config, trade_history, daily_pnl,
                   last_daily_reset, strategy_positions, peak_capital,
                   current_capital>>

(***************************************************************************)
(* BetaDistribution, StrategyArm, ThompsonSamplingSelector                 *)
(***************************************************************************)
\* the strategy_names the selectors are constructed with, in list order
ArmNames == <<"TrendFollowing", "Grid">>

ArmSet == {ArmNames[i] : i \in 1..Len(ArmNames)}

\* StrategyArm(name) with the dataclass defaults
NewArm ==
    [distribution |-> [alpha |-> One, beta |-> One],
     total_pulls |-> 0,
     total_reward |-> Zero,
     last_pulled |-> None]

NewArms == [n \in ArmSet |-> NewArm]

\* variant: a zero reward moves nothing (the 0.1 floor dropped)
BetaUpdateNoFloor(dist, reward) ==
    IF RLt(Zero, reward)
    THEN [dist EXCEPT !.alpha = RAdd(@, reward)]
    ELSE [dist EXCEPT !.beta = RAdd(@, RAbs(reward))]

\* variant: alpha assigned, not incremented
BetaUpdateAssign(dist, reward) ==
    IF RLt(Zero, reward)
    THEN [dist EXCEPT !.alpha = reward]
    ELSE [dist EXCEPT !.beta = RAdd(@, IF RLt(reward, Zero) THEN RAbs(reward)
                                       ELSE R(1, 10))]

\* BetaDistribution.update
BetaUpdate(dist, reward) ==
    IF RLt(Zero, reward)
    THEN [dist EXCEPT !.alpha = RAdd(@, reward)]
    ELSE [dist EXCEPT !.beta = RAdd(@, IF RLt(reward, Zero) THEN RAbs(reward)
                                       ELSE R(1, 10))]

\* StrategyArm.pull, without the sample it returns
ArmPull(arm, t) ==
    [arm EXCEPT !.total_pulls = @ + 1, !.last_pulled = Some(t)]

\* StrategyArm.update
ArmUpdate(arm, reward) ==
    [arm EXCEPT !.total_reward = RAdd(@, reward),
                !.distribution = BetaUpdate(@, reward)]

\* ThompsonSamplingSelector.update: the reward mapped onto [0, 1]
NormalizedReward(reward) ==
    RMax(Zero, RMin(One, RDiv(RAdd(reward, R(1, 10)), R(2, 10))))

\* variant: the arms share one distribution, an update reaches all of them
ArmsAfterUpdateShared(a, strategy_name, reward) ==
    IF strategy_name \notin DOMAIN a THEN a
    ELSE [n \in DOMAIN a |->
            IF n = strategy_name THEN ArmUpdate(a[n], NormalizedReward(reward))
            ELSE [a[n] EXCEPT !.distribution =
                        BetaUpdate(@, NormalizedReward(reward))]]

\* ThompsonSamplingSelector.update: the arms after the call
ArmsAfterUpdate(a, strategy_name, reward) ==
    IF strategy_name \notin DOMAIN a THEN a
    ELSE [a EXCEPT ![strategy_name] = ArmUpdate(@, NormalizedReward(reward))]

\* ThompsonSamplingSelector.select_strategy: every arm is pulled
ArmsAfterSelect(a, t) == [n \in DOMAIN a |-> ArmPull(a[n], t)]

\* max(samples, key=samples.get): the first arm, in dict order, whose sample
\* is the highest
Selected(samples) ==
    LET best(i) == \A j \in 1..Len(ArmNames) :
                        RLeq(samples[ArmNames[j]], samples[ArmNames[i]])
    IN  ArmNames[CHOOSE i \in 1..Len(ArmNames) :
                    best(i) /\ \A j \in 1..(i - 1) : ~best(j)]

\* datetime.isoformat: the date and the time of day, and its inverse
\* datetime.fromisoformat
IsoFormat(t) == <<Date(t), t % MinutesPerDay>>

FromIsoFormat(iso) == iso[1] * MinutesPerDay + iso[2]

\* the entry select_strategy appends to selection_history
SelectionEntry(samples, context, t) ==
    [timestamp |-> IsoFormat(t),
     selected |-> Selected(samples),
     sampled_value |-> samples[Selected(samples)],
     all_samples |-> samples,
     context |-> context]

\* the document save_state writes with json.dump
StateDocument(a, t) ==
    [arms |-> [n \in DOMAIN a |->
                [alpha |-> a[n].distribution.alpha,
                 beta |-> a[n].distribution.beta,
                 total_pulls |-> a[n].total_pulls,
                 total_reward |-> a[n].total_reward]],
     timestamp |-> IsoFormat(t)]

\* the state file: absent, opened for writing and not completely written,
\* or holding a document
NoFile == [kind |-> "absent", doc |-> None]

PartialFile == [kind |-> "partial", doc |-> None]

JsonFile(doc) == [kind |-> "json", doc |-> Some(doc)]

\* ThompsonSamplingSelector.load_state: the arms after the call.  A missing
\* file is skipped; a file json.load cannot parse raises, the exception is
\* logged and the arms stay as they were
LoadState(a, file) ==
    IF file.kind # "json" THEN a
    ELSE LET data == Unwrap(file.doc).arms
         IN  [n \in DOMAIN a |->
                IF n \in DOMAIN data
                THEN [a[n] EXCEPT !.distribution = [alpha |-> data[n].alpha,
                                                    beta |-> data[n].beta],
                                  !.total_pulls = data[n].total_pulls,
                                  !.total_reward = data[n].total_reward]
                ELSE a[n]]

\* ThompsonSamplingSelector.__init__ with a state_file that does not exist
InitBandit ==
    /\ arms = NewArms
    /\ selection_history = <<>>
    /\ state_file = NoFile
    /\ saving = FALSE

\* ThompsonSamplingSelector.select_strategy; samples are the values
\* numpy.random.beta returns for the arms
select_strategy(samples, context) ==
    /\ ~saving
    /\ arms' = ArmsAfterSelect(arms, now)
    /\ selection_history' =
            Append(selection_history, SelectionEntry(samples, context, now))
    /\ last' = [op |-> "select_strategy", args |-> <<context>>,
                value |-> <<Selected(samples), samples[Selected(samples)]>>]
    /\ UNCHANGED <<state_file, saving>>

\* ThompsonSamplingSelector.update up to the point where save_state has
\* opened the state file for writing, which truncates it
update(strategy_name, reward) ==
    /\ ~saving
    /\ arms' = ArmsAfterUpdate(arms, strategy_name, reward)
    /\ IF strategy_name \in DOMAIN arms
       THEN state_file' = PartialFile /\ saving' = TRUE
       ELSE UNCHANGED <<state_file, saving>>
    /\ last' = [op |-> "update", args |-> <<strategy_name, reward>>, value |-> None]
    /\ UNCHANGED selection_history

\* save_state: json.dump completes and the file is closed
finish_save ==
    /\ saving
    /\ state_file' = JsonFile(StateDocument(arms, now))
    /\ saving' = FALSE
    /\ last' = [op |-> "save_state", args |-> last.args, value |-> None]
    /\ UNCHANGED <<arms, selection_history>>

\* the process ends and a new ThompsonSamplingSelector is constructed with
\* the same strategy names and state file; before is the arms map the old
\* selector held
restart(op) ==
    /\ arms' = LoadState(NewArms, state_file)
    /\ selection_history' = <<>>
    /\ saving' = FALSE
    /\ last' = [op |-> op, args |-> <<>>, value |-> None, before |-> arms]
    /\ UNCHANGED state_file

(***************************************************************************)
(* ContextualBandit: one ThompsonSamplingSelector per context and a        *)
(* default one, each constructed without a state file                      *)
(***************************************************************************)
Contexts == {"sideways", "trending"}

\* ThompsonSamplingSelector(strategy_names)
NewSampler == [arms |-> NewArms, selection_history |-> <<>>]

\* ContextualBandit.__init__
NewSamplers == [c \in Contexts \cup {"default"} |-> NewSampler]

InitCtx == samplers = NewSamplers

\* the sampler select_strategy and update pass the call to
SamplerOf(context) == IF context \in Contexts THEN context ELSE "default"

\* ContextualBandit.select_strategy
ctx_select_strategy(context, samples) ==
    /\ samplers' = [samplers EXCEPT ![SamplerOf(context)] =
            [arms |-> ArmsAfterSelect(@.arms, now),
             selection_history |->
                Append(@.selection_history, SelectionEntry(samples, None, now))]]
    /\ last' = [op |-> "ctx_select_strategy", args |-> <<context>>,
                value |-> <<Selected(samples), samples[Selected(samples)]>>]

\* ContextualBandit.update
ctx_update(context, strategy_name, reward) ==
    /\ samplers' = [samplers EXCEPT ![SamplerOf(context)].arms =
            ArmsAfterUpdate(@, strategy_name, reward)]
    /\ last' = [op |-> "ctx_update", args |-> <<context, strategy_name, reward>>,
                value |-> None]

\* the process ends and a new ContextualBandit is constructed with the same
\* strategy names and contexts; before is what the old one held
ctx_restart ==
    /\ samplers' = NewSamplers
    /\ last' = [op |-> "ctx_restart", args |-> <<>>, value |-> None,
                before |-> samplers]

(***************************************************************************)
(* PerformanceTracker: the trade log and its date-partitioned files        *)
(***************************************************************************)
\* TradeResult.to_dict
ToDict(trade) == [trade EXCEPT !.timestamp = IsoFormat(@)]

\* TradeResult.from_dict
FromDict(data) == [data EXCEPT !.timestamp = FromIsoFormat(@)]

\* variant: the day file rewritten with the new trade alone
SaveTradeAlone(files, trade) ==
    Put(files, Date(trade.timestamp), <<ToDict(trade)>>)

\* PerformanceTracker._save_trade: the files after the call
SaveTrade(files, trade) ==
    LET date_str == Date(trade.timestamp)
        trades_today == IF date_str \in DOMAIN files THEN files[date_str] ELSE <<>>
    IN  Put(files, date_str, Append(trades_today, ToDict(trade)))

\* list.sort(key=lambda t: t.timestamp): a stable sort
RECURSIVE InsertByTimestamp(_, _)
InsertByTimestamp(sorted, trade) ==
    IF sorted = <<>> THEN <<trade>>
    ELSE IF sorted[Len(sorted)].timestamp <= trade.timestamp
         THEN Append(sorted, trade)
         ELSE Append(InsertByTimestamp(SubSeq(sorted, 1, Len(sorted) - 1), trade),
                     sorted[Len(sorted)])

RECURSIVE SortByTimestamp(_)
SortByTimestamp(trades) ==
    IF trades = <<>> THEN <<>>
    ELSE InsertByTimestamp(SortByTimestamp(SubSeq(trades, 1, Len(trades) - 1)),
                           trades[Len(trades)])

\* the trades of the files read in the order os.listdir gives their names
RECURSIVE ReadFiles(_, _)
ReadFiles(files, names) ==
    IF names = <<>> THEN <<>>
    ELSE [i \in 1..Len(files[names[1]]) |-> FromDict(files[names[1]][i])]
            \o ReadFiles(files, Tail(names))

\* PerformanceTracker._load_trades: the trades after the call
LoadTrades(files, names) == SortByTimestamp(ReadFiles(files, names))

\* the orders in which os.listdir may give the names of the files
ListDir(files) ==
    {names \in [1..Cardinality(DOMAIN files) -> DOMAIN files] :
        \A i, j \in DOMAIN names : i # j => names[i] # names[j]}

\* what the loop of _load_trades appends from each file before json.load or
\* from_dict raises: nothing of a file that is not valid JSON (damage 0), the
\* records before record k of a file whose record k cannot be turned into a
\* TradeResult (damage k), every record of the other files
Readable(files, damage) ==
    [d \in DOMAIN files |->
        IF d \notin DOMAIN damage THEN files[d]
        ELSE IF damage[d] = 0 THEN <<>>
        ELSE SubSeq(files[d], 1, damage[d] - 1)]

\* json.load of the day file raises
InvalidJson(damage, date_str) == date_str \in DOMAIN damage /\ damage[date_str] = 0

\* PerformanceTracker.__init__ on a data_dir that is empty
InitTracker ==
    /\ pt_trades = <<>>
    /\ pt_files = EmptyDict
    /\ pt_recorded = <<>>
    /\ pt_damage = EmptyDict

\* TradeResult(...) as record_trade builds it
TradeResult(timestamp, strategy, pair, side, entry_price, exit_price, profit_ratio, profit_abs, hold_duration_seconds, market_condition, entry_reason, exit_reason) ==
    [timestamp |-> timestamp, strategy |-> strategy, pair |-> pair,
     side |-> side, entry_price |-> entry_price,
     exit_price |-> exit_price, profit_ratio |-> profit_ratio,
     profit_abs |-> profit_abs,
     hold_duration_seconds |-> hold_duration_seconds,
     market_condition |-> market_condition,
     entry_reason |-> entry_reason, exit_reason |-> exit_reason]

\* variant: the log kept in reverse order, the new trade first
TradesAfterRecordFirst(trades, trade) == <<trade>> \o trades

\* self.trades.append(trade)
TradesAfterRecord(trades, trade) == Append(trades, trade)

\* PerformanceTracker.record_trade: the trade is appended to the log and
\* _save_trade is called outside any try; when json.load of the day file
\* raises, the exception leaves record_trade and the file is as it was
pt_record_trade(strategy, pair, side, entry_price, exit_price, profit_ratio, profit_abs, hold_duration_seconds, market_condition, entry_reason, exit_reason) ==
    LET trade == TradeResult(now, strategy, pair, side, entry_price, exit_price,
                             profit_ratio, profit_abs, hold_duration_seconds,
                             market_condition, entry_reason, exit_reason)
        raised == InvalidJson(pt_damage, Date(now))
    IN  /\ pt_trades' = TradesAfterRecord(pt_trades, trade)
        /\ pt_files' = IF raised THEN pt_files ELSE SaveTrade(pt_files, trade)
        /\ pt_recorded' = Append(pt_recorded, trade)
        /\ last' = [op |-> "pt_record_trade", args |-> <<strategy, profit_ratio>>,
                    value |-> IF raised THEN Some("JSONDecodeError") ELSE None]
        /\ UNCHANGED pt_damage

\* PerformanceTracker.record_trade when writing the day file fails with an
\* OSError: either open(filepath, 'w') raises and the file is as it was, or
\* the file has been truncated and json.dump does not complete (truncated)
pt_record_trade_oserror(strategy, pair, side, entry_price, exit_price, profit_ratio, profit_abs, hold_duration_seconds, market_condition, entry_reason, exit_reason, truncated) ==
    LET trade == TradeResult(now, strategy, pair, side, entry_price, exit_price,
                             profit_ratio, profit_abs, hold_duration_seconds,
                             market_condition, entry_reason, exit_reason)
    IN  /\ ~InvalidJson(pt_damage, Date(now))
        /\ pt_trades' = TradesAfterRecord(pt_trades, trade)
        /\ pt_recorded' = Append(pt_recorded, trade)
        /\ IF truncated
           THEN /\ pt_files' = Put(pt_files, Date(now), <<>>)
                /\ pt_damage' = Put(pt_damage, Date(now), 0)
           ELSE UNCHANGED <<pt_files, pt_damage>>
        /\ last' = [op |-> "pt_record_trade", args |-> <<strategy, profit_ratio>>,
                    value |-> Some("OSError")]

\* a day file is damaged from outside the program: it is no longer valid
\* JSON (k = 0) or its record k can no longer be turned into a TradeResult
pt_damage_file(date_str, k) ==
    /\ date_str \in DOMAIN pt_files
    /\ k \in 0..Len(pt_files[date_str])
    /\ pt_damage' = Put(pt_damage, date_str, k)
    /\ last' = [op |-> "pt_damage_file", args |-> <<date_str, k>>, value |-> None]
    /\ UNCHANGED <<pt_trades, pt_files, pt_recorded>>

\* timedelta(hours=lookback_hours), in the minutes of the clock
MinutesPerHour == 60

\* StrategyPerformanceStats(strategy_name, period_start, period_end) with the
\* defaults of the dataclass
NewStats(strategy, period_start, period_end) ==
    [strategy_name |-> strategy, period_start |-> period_start,
     period_end |-> period_end, total_trades |-> 0, winning_trades |-> 0,
     losing_trades |-> 0, total_profit |-> Zero, total_loss |-> Zero,
     max_win |-> Zero, max_loss |-> Zero, avg_hold_duration |-> Zero]

\* variant: a trade with profit_ratio 0 is counted in total_trades only
AddTradeSkippingFlat(stats, trade) ==
    IF RLt(Zero, trade.profit_ratio)
    THEN [stats EXCEPT !.total_trades = @ + 1,
                       !.winning_trades = @ + 1,
                       !.total_profit = RAdd(@, trade.profit_ratio),
                       !.max_win = RMax(@, trade.profit_ratio)]
    ELSE IF RLt(trade.profit_ratio, Zero)
    THEN [stats EXCEPT !.total_trades = @ + 1,
                       !.losing_trades = @ + 1,
                       !.total_loss = RAdd(@, trade.profit_ratio),
                       !.max_loss = RMin(@, trade.profit_ratio)]
    ELSE [stats EXCEPT !.total_trades = @ + 1]

\* get_strategy_stats: the body of the loop over relevant_trades
AddTrade(stats, trade) ==
    IF RLt(Zero, trade.profit_ratio)
    THEN [stats EXCEPT !.total_trades = @ + 1,
                       !.winning_trades = @ + 1,
                       !.total_profit = RAdd(@, trade.profit_ratio),
                       !.max_win = RMax(@, trade.profit_ratio)]
    ELSE [stats EXCEPT !.total_trades = @ + 1,
                       !.losing_trades = @ + 1,
                       !.total_loss = RAdd(@, trade.profit_ratio),
                       !.max_loss = RMin(@, trade.profit_ratio)]

RECURSIVE FoldTrades(_, _)
FoldTrades(stats, trades) ==
    IF trades = <<>> THEN stats
    ELSE FoldTrades(AddTrade(stats, Head(trades)), Tail(trades))

RECURSIVE SumHoldDuration(_)
SumHoldDuration(trades) ==
    IF trades = <<>> THEN 0
    ELSE Head(trades).hold_duration_seconds + SumHoldDuration(Tail(trades))

\* get_strategy_stats: relevant_trades
RelevantTrades(trades, strategy, cutoff) ==
    SelectSeq(trades, LAMBDA t : t.strategy = strategy /\ t.timestamp > cutoff)

\* PerformanceTracker.get_strategy_stats: the value returned at time t
StrategyStats(trades, strategy, lookback_hours, t) ==
    LET cutoff == t - MinutesPerHour * lookback_hours
        relevant_trades == RelevantTrades(trades, strategy, cutoff)
        stats == FoldTrades(NewStats(strategy, cutoff, t), relevant_trades)
    IN  IF relevant_trades # <<>>
        THEN [stats EXCEPT !.avg_hold_duration =
                    R(SumHoldDuration(relevant_trades), Len(relevant_trades))]
        ELSE stats

\* StrategyPerformanceStats.win_rate
WinRate(stats) ==
    IF stats.total_trades = 0 THEN R(1, 2)
    ELSE R(stats.winning_trades, stats.total_trades)

\* StrategyPerformanceStats.profit_factor
ProfitFactor(stats) ==
    IF stats.total_loss = Zero
    THEN (IF RLt(Zero, stats.total_profit) THEN R(10, 1) ELSE One)
    ELSE RAbs(RDiv(stats.total_profit, stats.total_loss))

\* StrategyPerformanceStats.avg_profit
AvgProfit(stats) ==
    IF stats.winning_trades = 0 THEN Zero
    ELSE RDiv(stats.total_profit, R(stats.winning_trades, 1))

\* StrategyPerformanceStats.avg_loss
AvgLoss(stats) ==
    IF stats.losing_trades = 0 THEN Zero
    ELSE RDiv(stats.total_loss, R(stats.losing_trades, 1))

\* StrategyPerformanceStats.expectancy
Expectancy(stats) ==
    RSub(RMul(WinRate(stats), AvgProfit(stats)),
         RMul(RSub(One, WinRate(stats)), RAbs(AvgLoss(stats))))

\* PerformanceTracker.get_strategy_stats
get_strategy_stats(strategy, lookback_hours) ==
    /\ last' = [op |-> "get_strategy_stats", args |-> <<strategy, lookback_hours>>,
                value |-> StrategyStats(pt_trades, strategy, lookback_hours, now)]
    /\ UNCHANGED ptvars

\* set(t.strategy for t in self.trades)
StrategiesOf(trades) == {trades[i].strategy : i \in DOMAIN trades}

\* PerformanceTracker.get_all_strategy_stats: the value returned at time t
AllStrategyStats(trades, lookback_hours, t) ==
    [strategy \in StrategiesOf(trades) |->
        StrategyStats(trades, strategy, lookback_hours, t)]

\* PerformanceTracker.get_all_strategy_stats
get_all_strategy_stats(lookback_hours) ==
    /\ last' = [op |-> "get_all_strategy_stats", args |-> <<lookback_hours>>,
                value |-> AllStrategyStats(pt_trades, lookback_hours, now)]
    /\ UNCHANGED ptvars

\* dict.get(key) without a default: None when the key is missing
OptGet(d, k) == IF k \in DOMAIN d THEN Some(d[k]) ELSE None

\* _conditions_match: trend_order and vol_order
TrendOrder ==
    <<"strong_downtrend", "downtrend", "weak_downtrend", "sideways",
      "weak_uptrend", "uptrend", "strong_uptrend">>

VolOrder == <<"low", "normal", "high", "extreme">>

InList(list, x) == \E i \in DOMAIN list : list[i] = x

\* list.index(x) for an x that is in the list
IndexOf(list, x) == CHOOSE i \in DOMAIN list : list[i] = x

\* variant: buckets two steps apart still match
AdjacentWide(order, stored, query, key, default) ==
    \/ OptGet(stored, key) = OptGet(query, key)
    \/ /\ InList(order, Get(stored, key, default))
       /\ InList(order, Get(query, key, default))
       /\ Abs(IndexOf(order, Get(stored, key, default))
              - IndexOf(order, Get(query, key, default))) <= 2

\* _conditions_match: one of its two checks; a bucket that is not in the
\* list makes list.index raise ValueError, which gives False
Adjacent(order, stored, query, key, default) ==
    \/ OptGet(stored, key) = OptGet(query, key)
    \/ /\ InList(order, Get(stored, key, default))
       /\ InList(order, Get(query, key, default))
       /\ Abs(IndexOf(order, Get(stored, key, default))
              - IndexOf(order, Get(query, key, default))) <= 1

\* PerformanceTracker._conditions_match
ConditionsMatch(stored, query) ==
    /\ DOMAIN stored # {}
    /\ DOMAIN query # {}
    /\ Adjacent(TrendOrder, stored, query, "trend", "sideways")
    /\ Adjacent(VolOrder, stored, query, "volatility", "normal")

\* get_best_strategy_for_condition: minimum trades for significance
MinTradesForSignificance == 3

\* the trades get_best_strategy_for_condition appends to strategy_performance
MatchingTrades(trades, market_condition, cutoff) ==
    SelectSeq(trades, LAMBDA t : /\ ~(t.timestamp < cutoff)
                                 /\ ConditionsMatch(t.market_condition,
                                                    market_condition))

RECURSIVE SumProfitRatio(_)
SumProfitRatio(trades) ==
    IF trades = <<>> THEN Zero
    ELSE RAdd(Head(trades).profit_ratio, SumProfitRatio(Tail(trades)))

\* np.mean of a non-empty list of profit ratios
MeanProfitRatio(trades) == RDiv(SumProfitRatio(trades), R(Len(trades), 1))

\* PerformanceTracker.get_best_strategy_for_condition: the value returned at
\* time t.  max over the dict items gives, among equal means, the strategy
\* that entered strategy_performance first
BestStrategyForCondition(trades, market_condition, lookback_hours, t) ==
    LET cutoff == t - MinutesPerHour * lookback_hours
        matching == MatchingTrades(trades, market_condition, cutoff)
        of(strategy) == SelectSeq(matching, LAMBDA x : x.strategy = strategy)
        first(strategy) == CHOOSE i \in DOMAIN matching :
                                /\ matching[i].strategy = strategy
                                /\ \A j \in 1..(i - 1) : matching[j].strategy # strategy
        avg_profits == {strategy \in StrategiesOf(matching) :
                            Len(of(strategy)) >= MinTradesForSignificance}
        better(a, b) == \/ RLt(MeanProfitRatio(of(b)), MeanProfitRatio(of(a)))
                        \/ /\ MeanProfitRatio(of(b)) = MeanProfitRatio(of(a))
                           /\ first(a) <= first(b)
    IN  IF avg_profits = {} THEN None
        ELSE LET best == CHOOSE a \in avg_profits : \A b \in avg_profits : better(a, b)
             IN  Some(<<best, MeanProfitRatio(of(best))>>)

\* PerformanceTracker.get_best_strategy_for_condition
get_best_strategy_for_condition(market_condition, lookback_hours) ==
    /\ last' = [op |-> "get_best_strategy_for_condition",
                args |-> <<market_condition, lookback_hours>>,
                value |-> BestStrategyForCondition(pt_trades, market_condition,
                                                   lookback_hours, now)]
    /\ UNCHANGED ptvars

\* format(x, ".<digits>f"): x rounded to digits decimals, ties to even
RoundTo(x, digits) ==
    LET scale == 10 ^ digits
        q == (x[1] * scale) \div x[2]
        r == (x[1] * scale) % x[2]
    IN  IF 2 * r > x[2] \/ (2 * r = x[2] /\ q % 2 = 1)
        THEN R(q + 1, scale)
        ELSE R(q, scale)

\* get_performance_comparison: the line of one strategy, as the values the
\* format string prints
ReportLine(name, stats) ==
    <<name, stats.total_trades, RoundTo(RMul(WinRate(stats), R(100, 1)), 1),
      RoundTo(ProfitFactor(stats), 2),
      RoundTo(RMul(Expectancy(stats), R(100, 1)), 2)>>

\* sorted(stats.items(), key=lambda x: -x[1].profit_factor): a stable sort of
\* the items in the order names gives
RECURSIVE InsertByProfitFactor(_, _, _)
InsertByProfitFactor(sorted, name, stats) ==
    IF sorted = <<>> THEN <<name>>
    ELSE IF RLeq(ProfitFactor(stats[name]), ProfitFactor(stats[sorted[Len(sorted)]]))
         THEN Append(sorted, name)
         ELSE Append(InsertByProfitFactor(SubSeq(sorted, 1, Len(sorted) - 1),
                                          name, stats),
                     sorted[Len(sorted)])

RECURSIVE SortByProfitFactor(_, _)
SortByProfitFactor(names, stats) ==
    IF names = <<>> THEN <<>>
    ELSE InsertByProfitFactor(
            SortByProfitFactor(SubSeq(names, 1, Len(names) - 1), stats),
            names[Len(names)], stats)

\* PerformanceTracker.get_performance_comparison: the report returned at time
\* t when the set of strategy names iterates in the order names
PerformanceComparison(trades, lookback_hours, t, names) ==
    LET stats == AllStrategyStats(trades, lookback_hours, t)
        order == SortByProfitFactor(names, stats)
    IN  IF DOMAIN stats = {}
        THEN [title |-> "No performance data available", lines |-> <<>>]
        ELSE [title |-> "Performance Report",
              lines |-> [i \in DOMAIN order |->
                            ReportLine(order[i], stats[order[i]])]]

\* the orders in which a set of strategy names may iterate
Orderings(S) ==
    {names \in [1..Cardinality(S) -> S] :
        \A i, j \in DOMAIN names : i # j => names[i] # names[j]}

\* PerformanceTracker.get_performance_comparison
get_performance_comparison(lookback_hours) ==
    /\ \E names \in Orderings(StrategiesOf(pt_trades)) :
          last' = [op |-> "get_performance_comparison", args |-> <<lookback_hours>>,
                   value |-> PerformanceComparison(pt_trades, lookback_hours,
                                                   now, names)]
    /\ UNCHANGED ptvars

\* a new PerformanceTracker is constructed on the same data_dir
pt_init ==
    /\ \E names \in ListDir(pt_files) :
            pt_trades' = LoadTrades(Readable(pt_files, pt_damage), names)
    /\ last' = [op |-> "pt_init", args |-> <<>>, value |-> None]
    /\ UNCHANGED <<pt_files, pt_recorded, pt_damage>>

(***************************************************************************)
(* Sub-strategies: calculate_fitness_score of the three reference          *)
(* strategies (strategy_base.py).  A market condition is a dict that may   *)
(* lack any of its keys; adx and rsi are numbers.                          *)
(***************************************************************************)
ReferenceStrategies == {"TrendFollowing", "Grid", "MeanReversion"}

\* SubStrategyBase.__init__: _last_fitness_score = 0.0
InitStrategies ==
    /\ last_fitness_score = [n \in ReferenceStrategies |-> Zero]
    /\ regime = EmptyDict

\* the scores are summed in ten-thousandths: 0.45 is 4500
ScoreUnit == 10000

\* variant: a penalty taken off the score
PenaliseBySubtracting(score, tenths) == score - tenths * (ScoreUnit \div 10)

\* score *= 0.3, score *= 0.4: the factor in tenths
Penalise(score, tenths) == (score * tenths) \div 10

\* min(score, 1.0), as a float
Clamped(score) == R(IF score < ScoreUnit THEN score ELSE ScoreUnit, ScoreUnit)

\* TrendFollowingSubStrategy.calculate_fitness_score
TrendFollowingFitness(market_condition) ==
    LET trend == Get(market_condition, "trend", "sideways")
        volatility == Get(market_condition, "volatility", "normal")
        volume == Get(market_condition, "volume", "normal")
        adx == Get(market_condition, "adx", 20)
        s1 == IF trend \in {"strong_uptrend", "strong_downtrend"} THEN 5000
              ELSE IF trend \in {"uptrend", "downtrend"} THEN 3500
              ELSE IF trend \in {"weak_uptrend", "weak_downtrend"} THEN 1500
              ELSE 0
        s2 == IF adx > 35 THEN s1 + 2500
              ELSE IF adx > 25 THEN s1 + 2000
              ELSE IF adx > 20 THEN s1 + 1000
              ELSE s1
        s3 == IF volume \in {"high", "spike"} THEN s2 + 1500
              ELSE IF volume = "normal" THEN s2 + 1000
              ELSE s2
        s4 == IF volatility \in {"normal", "high"} THEN s3 + 1000 ELSE s3
    IN  Clamped(s4)

\* GridSubStrategy.calculate_fitness_score
GridFitness(market_condition) ==
    LET trend == Get(market_condition, "trend", "sideways")
        volatility == Get(market_condition, "volatility", "normal")
        adx == Get(market_condition, "adx", 20)
        s1 == IF trend = "sideways" THEN 4500
              ELSE IF trend \in {"weak_uptrend", "weak_downtrend"} THEN 2500
              ELSE 0
        s2 == IF adx < 15 THEN s1 + 2500
              ELSE IF adx < 20 THEN s1 + 2000
              ELSE IF adx < 25 THEN s1 + 1000
              ELSE s1
        s3 == IF volatility = "low" THEN s2 + 2000
              ELSE IF volatility = "normal" THEN s2 + 1500
              ELSE s2
        s4 == IF trend \in {"strong_uptrend", "strong_downtrend"}
              THEN Penalise(s3, 3) ELSE s3
        s5 == IF volatility = "extreme" THEN Penalise(s4, 4) ELSE s4
    IN  Clamped(s5)

\* MeanReversionSubStrategy.calculate_fitness_score
MeanReversionFitness(market_condition) ==
    LET trend == Get(market_condition, "trend", "sideways")
        volatility == Get(market_condition, "volatility", "normal")
        rsi == Get(market_condition, "rsi", 50)
        s1 == IF trend = "sideways" THEN 3500
              ELSE IF trend \in {"weak_uptrend", "weak_downtrend"} THEN 2000
              ELSE 0
        s2 == IF rsi < 25 \/ rsi > 75 THEN s1 + 3500
              ELSE IF rsi < 30 \/ rsi > 70 THEN s1 + 2500
              ELSE IF rsi < 35 \/ rsi > 65 THEN s1 + 1000
              ELSE s1
        s3 == IF volatility \in {"normal", "low"} THEN s2 + 2000 ELSE s2
        s4 == IF trend \in {"strong_uptrend", "strong_downtrend"}
              THEN Penalise(s3, 3) ELSE s3
    IN  Clamped(s4)

\* strategy.calculate_fitness_score(market_condition) of the strategy of
\* that name
FitnessScore(name, market_condition) ==
    CASE name = "TrendFollowing" -> TrendFollowingFitness(market_condition)
      [] name = "Grid" -> GridFitness(market_condition)
      [] name = "MeanReversion" -> MeanReversionFitness(market_condition)

\* variant: a threshold of 0.1
MinFitnessThresholdLow(name) == R(1, 10)

\* strategy.metadata.min_fitness_threshold: 0.25 for the three strategies
MinFitnessThreshold(name) == R(25, 100)

\* calculate_fitness_score called on the strategy of that name with the
\* regime of the cycle; the score is kept in _last_fitness_score
calculate_fitness_score(name) ==
    /\ last_fitness_score' = [last_fitness_score EXCEPT ![name] = FitnessScore(name, regime)]
    /\ last' = [op |-> "calculate_fitness_score", args |-> <<name, regime>>,
                value |-> FitnessScore(name, regime)]
    /\ UNCHANGED regime

(***************************************************************************)
(* StrategySelector (adaptive_multi_strategy.py)                            *)
(***************************************************************************)
\* AdaptiveMultiStrategy.__init__: self.sub_strategies
DefaultStrategies == <<"TrendFollowing", "Grid", "MeanReversion">>

\* timedelta(minutes=30)
MinSwitchInterval == 30

\* the keys of self.strategies
Registered == {strategies[i] : i \in DOMAIN strategies}

\* StrategySelector.__init__ with the sub-strategies of these names
InitSelector(names) ==
    /\ strategies = names
    /\ performance_history = [n \in {names[i] : i \in DOMAIN names} |-> <<>>]
    /\ ss_selection_history = <<>>
    /\ last_switch_time = None
    /\ current_strategy = None

\* how many of the trade results have a profit above 0
RECURSIVE Wins(_)
Wins(history) ==
    IF history = <<>> THEN 0
    ELSE (IF RLt(Zero, Head(history).profit) THEN 1 ELSE 0) + Wins(Tail(history))

\* variant: the whole history
RecentAll(history) == history

\* history[-20:]
Recent(history) ==
    IF Len(history) <= 20 THEN history
    ELSE SubSeq(history, Len(history) - 19, Len(history))

\* StrategySelector._get_performance_multiplier
PerformanceMultiplier(history) ==
    IF Len(history) < 5 THEN One
    ELSE RAdd(R(7, 10), RMul(R(Wins(Recent(history)), Len(Recent(history))), R(6, 10)))

\* variant: the score kept whatever the threshold
AdjustedScoreUnfiltered(name, market_condition, histories) ==
    RMul(FitnessScore(name, market_condition),
         PerformanceMultiplier(Get(histories, name, <<>>)))

\* select_best_strategy: the adjusted score of one strategy
AdjustedScore(name, market_condition, histories) ==
    LET adjusted_score == RMul(FitnessScore(name, market_condition),
                               PerformanceMultiplier(Get(histories, name, <<>>)))
    IN  IF RLt(adjusted_score, MinFitnessThreshold(name)) THEN Zero
        ELSE adjusted_score

\* select_best_strategy: the scores dict its loop fills
RECURSIVE Scores(_, _, _)
Scores(names, market_condition, histories) ==
    IF names = <<>> THEN EmptyDict
    ELSE (Head(names) :> AdjustedScore(Head(names), market_condition, histories))
         @@ Scores(Tail(names), market_condition, histories)

\* max(scores, key=scores.get): the first key, in the order of the dict, that
\* has the highest score
ArgMax(names, scores) ==
    names[CHOOSE i \in DOMAIN names :
            /\ \A j \in DOMAIN names : RLeq(scores[names[j]], scores[names[i]])
            /\ \A j \in 1..(i - 1) : scores[names[j]] # scores[names[i]]]

\* select_best_strategy after its loop: the strategy and score it settles
\* on at time t, with the scores of all strategies
BestOf(scores, t) ==
    LET best_strategy == ArgMax(strategies, scores)
        in_interval == /\ current_strategy # None
                       /\ last_switch_time # None
                       /\ t - Unwrap(last_switch_time) < MinSwitchInterval
        current_score == Get(scores, Unwrap(current_strategy), Zero)
    IN  IF in_interval /\ RLt(scores[best_strategy], RMul(current_score, R(12, 10)))
        THEN [selected |-> Unwrap(current_strategy), score |-> current_score,
              all_scores |-> scores]
        ELSE [selected |-> best_strategy, score |-> scores[best_strategy],
              all_scores |-> scores]

\* select_best_strategy: what it returns for a selector with at least one
\* strategy at time t
BestStrategy(market_condition, t) ==
    CHOOSE best \in {BestOf(scores, t) :
                        scores \in {Scores(strategies, market_condition,
                                           performance_history)}} : TRUE

\* variant: the selection is logged only when the strategy is switched
SelectionsAfterSwitchOnly(history, entry, switched) ==
    IF switched THEN Append(history, entry) ELSE history

\* self.selection_history.append({...})
SelectionsAfter(history, entry, switched) == Append(history, entry)

\* select_best_strategy for a selector with at least one strategy: what it
\* does to the selector and to the strategies when it settles on best
SelectBestEffects(market_condition, best) ==
    LET switched == Some(best.selected) # current_strategy
    IN  /\ current_strategy' = Some(best.selected)
        /\ last_switch_time' = IF switched THEN Some(now) ELSE last_switch_time
        /\ ss_selection_history' = SelectionsAfter(ss_selection_history,
                [timestamp |-> now, selected |-> best.selected, score |-> best.score,
                 all_scores |-> best.all_scores, market_condition |-> market_condition],
                switched)
        /\ last_fitness_score' = [n \in ReferenceStrategies |->
                IF n \in Registered THEN FitnessScore(n, market_condition)
                ELSE last_fitness_score[n]]
        /\ UNCHANGED <<strategies, performance_history, regime>>

\* StrategySelector.select_best_strategy; max() of the empty scores of a
\* selector without strategies raises ValueError
select_best_strategy(market_condition) ==
    IF strategies = <<>>
    THEN /\ last' = [op |-> "select_best_strategy", args |-> <<market_condition>>,
                     value |-> None, raised |-> "ValueError"]
         /\ UNCHANGED ssvars
    ELSE \E best \in {BestStrategy(market_condition, now)} :
            /\ SelectBestEffects(market_condition, best)
            /\ last' = [op |-> "select_best_strategy", args |-> <<market_condition>>,
                        value |-> Some(<<best.selected, best.score, best.all_scores>>)]

\* sum(weights.values()) of a list of (name, weight) items
RECURSIVE SumWeights(_)
SumWeights(items) ==
    IF items = <<>> THEN Zero ELSE RAdd(Head(items)[2], SumWeights(Tail(items)))

\* {k: v / total for k, v in items}
Normalised(items) ==
    [i \in DOMAIN items |-> <<items[i][1], RDiv(items[i][2], SumWeights(items))>>]

\* sorted(items, key=lambda x: x[1], reverse=True): a stable sort
RECURSIVE InsertByWeight(_, _)
InsertByWeight(sorted, item) ==
    IF sorted = <<>> THEN <<item>>
    ELSE IF RLeq(item[2], sorted[Len(sorted)][2])
         THEN Append(sorted, item)
         ELSE Append(InsertByWeight(SubSeq(sorted, 1, Len(sorted) - 1), item),
                     sorted[Len(sorted)])

RECURSIVE SortByWeight(_)
SortByWeight(items) ==
    IF items = <<>> THEN <<>>
    ELSE InsertByWeight(SortByWeight(SubSeq(items, 1, Len(items) - 1)),
                        items[Len(items)])

\* items[:top_n]
Slice(items, top_n) ==
    IF top_n >= 0
    THEN SubSeq(items, 1, IF top_n < Len(items) THEN top_n ELSE Len(items))
    ELSE SubSeq(items, 1, IF Len(items) + top_n > 0 THEN Len(items) + top_n ELSE 0)

\* select_ensemble: the weights it returns for these scores, as the items of
\* the dict in their order
EnsembleWeights(names, scores, top_n) ==
    LET items == [i \in DOMAIN names |-> <<names[i], scores[names[i]]>>]
        valid_scores == SelectSeq(items, LAMBDA x : RLt(Zero, x[2]))
    IN  IF valid_scores = <<>> THEN << <<"TrendFollowing", One>> >>
        ELSE Normalised(Slice(SortByWeight(Normalised(valid_scores)), top_n))

\* StrategySelector.select_ensemble
select_ensemble(market_condition, top_n) ==
    IF strategies = <<>>
    THEN /\ last' = [op |-> "select_ensemble", args |-> <<market_condition, top_n>>,
                     value |-> None, raised |-> "ValueError"]
         /\ UNCHANGED ssvars
    ELSE \E best \in {BestStrategy(market_condition, now)} :
            /\ SelectBestEffects(market_condition, best)
            /\ last' = [op |-> "select_ensemble", args |-> <<market_condition, top_n>>,
                        value |-> Some(EnsembleWeights(strategies, best.all_scores, top_n))]

\* StrategySelector._get_performance_multiplier called for a name
get_performance_multiplier(strategy_name) ==
    /\ last' = [op |-> "_get_performance_multiplier", args |-> <<strategy_name>>,
                value |-> PerformanceMultiplier(Get(performance_history, strategy_name, <<>>))]
    /\ UNCHANGED ssvars

\* variant: the result is recorded under any name
HistoryAfterResultAnyName(histories, strategy_name, entry) ==
    Put(histories, strategy_name, Append(Get(histories, strategy_name, <<>>), entry))

\* record_trade_result: performance_history after the call
HistoryAfterResult(histories, strategy_name, entry) ==
    IF strategy_name \in DOMAIN histories
    THEN [histories EXCEPT ![strategy_name] = Append(@, entry)]
    ELSE histories

\* StrategySelector.record_trade_result
record_trade_result(strategy_name, profit, market_condition) ==
    /\ performance_history' = HistoryAfterResult(performance_history, strategy_name,
            [timestamp |-> now, profit |-> profit, market_condition |-> market_condition])
    /\ last' = [op |-> "record_trade_result", args |-> <<strategy_name, profit>>,
                value |-> None]
    /\ UNCHANGED <<strategies, ss_selection_history, last_switch_time,
                   current_strategy, last_fitness_score, regime>>

(***************************************************************************)
(* EpsilonGreedySelector (thompson_sampling.py)                             *)
(***************************************************************************)
\* EpsilonGreedySelector.__init__ with these strategy names
InitEpsilonGreedy(names) ==
    /\ rewards = [n \in {names[i] : i \in DOMAIN names} |-> <<>>]
    /\ counts = [n \in {names[i] : i \in DOMAIN names} |-> 0]

\* EpsilonGreedySelector.update
eg_update(strategy_name, reward) ==
    /\ IF strategy_name \in DOMAIN rewards
       THEN /\ rewards' = [rewards EXCEPT ![strategy_name] = Append(@, reward)]
            /\ counts' = [counts EXCEPT ![strategy_name] = @ + 1]
       ELSE UNCHANGED <<rewards, counts>>
    /\ last' = [op |-> "eg_update", args |-> <<strategy_name, reward>>, value |-> None]

(***************************************************************************)
(* MarketRegimeDetector (market_regime.py).  The detectors are pure: a      *)
(* series of bars enters through the indicators pandas computes from it     *)
(* (its length, the last ADX, the EMA slopes, the ATR percentile, the last  *)
(* volume and its moving average, the last RSI); NaN is None.               *)
(***************************************************************************)
\* TrendDetector.__init__: self.ema_periods
EmaPeriods == {20, 50, 200}

\* TrendDetector.detect: len(df) < 200
MinBars == 200

\* calculate_ema_slopes: one slope per period, 0.0 for a series shorter
\* than 5 bars
EmaSlopes(n_bars, slope_of) ==
    [period \in EmaPeriods |-> IF n_bars >= 5 THEN slope_of[period] ELSE Zero]

\* adx.iloc[-1] if not pd.isna(adx.iloc[-1]) else 20
CurrentAdx(adx) == IF adx = None THEN R(20, 1) ELSE Unwrap(adx)

\* the slope of the fastest EMA alone
AvgSlopeOfFastest(slopes) == slopes[20]

\* np.mean(list(slopes.values()))
AvgSlope(slopes) == RDiv(RAdd(RAdd(slopes[20], slopes[50]), slopes[200]), R(3, 1))

\* min(0.95, 0.7 + current_adx / 100)
StrongConfidence(current_adx) ==
    RMin(R(95, 100), RAdd(R(7, 10), RDiv(current_adx, R(100, 1))))

\* TrendDetector.detect: the if/elif chain on current_adx and avg_slope
TrendOf(current_adx, avg_slope) ==
    CASE RLt(R(40, 1), current_adx) /\ RLt(One, avg_slope) ->
            <<"strong_uptrend", StrongConfidence(current_adx)>>
      [] RLt(R(25, 1), current_adx) /\ RLt(R(1, 2), avg_slope) -> <<"uptrend", R(75, 100)>>
      [] RLt(R(20, 1), current_adx) /\ RLt(Zero, avg_slope) -> <<"weak_uptrend", R(6, 10)>>
      [] RLt(R(40, 1), current_adx) /\ RLt(avg_slope, R(-1, 1)) ->
            <<"strong_downtrend", StrongConfidence(current_adx)>>
      [] RLt(R(25, 1), current_adx) /\ RLt(avg_slope, R(-1, 2)) -> <<"downtrend", R(75, 100)>>
      [] RLt(R(20, 1), current_adx) /\ RLt(avg_slope, Zero) -> <<"weak_downtrend", R(6, 10)>>
      [] OTHER ->
            <<"sideways", IF RLt(current_adx, R(20, 1)) THEN R(8, 10) ELSE R(6, 10)>>

\* TrendDetector.detect: (trend, confidence, details)
TrendDetect(n_bars, adx, slope_of) ==
    IF n_bars < MinBars
    THEN [trend |-> "sideways", confidence |-> R(1, 2),
          details |-> [reason |-> "insufficient_data"]]
    ELSE LET verdict == TrendOf(CurrentAdx(adx), AvgSlope(EmaSlopes(n_bars, slope_of)))
         IN  [trend |-> verdict[1], confidence |-> verdict[2],
              details |-> [adx |-> CurrentAdx(adx),
                           slopes |-> EmaSlopes(n_bars, slope_of),
                           avg_slope |-> AvgSlope(EmaSlopes(n_bars, slope_of))]]

td_detect(bars) ==
    last' = [op |-> "td_detect", args |-> <<bars.n_bars, bars.adx, bars.slope_of>>,
             value |-> TrendDetect(bars.n_bars, bars.adx, bars.slope_of)]

\* VolatilityAnalyzer.detect: the state of the ATR percentile
VolatilityOf(atr_percentile) ==
    CASE atr_percentile > 95 -> "extreme"
      [] atr_percentile > 75 -> "high"
      [] atr_percentile > 25 -> "normal"
      [] OTHER -> "low"

\* VolumeAnalyzer.detect: current_volume / current_ma if current_ma > 0 else 1.0
VolumeRatio(current_volume, current_ma) ==
    IF RLt(Zero, current_ma) THEN RDiv(current_volume, current_ma) ELSE One

\* VolumeAnalyzer.detect: (state, volume_ratio); volume is None for bars
\* without a volume column, else <<current_volume, current_ma>>
VolumeDetect(volume) ==
    IF volume = None
    THEN <<"normal", One>>
    ELSE LET volume_ratio == VolumeRatio(volume[1], volume[2])
         IN  CASE RLt(R(5, 2), volume_ratio) -> <<"spike", volume_ratio>>
               [] RLt(R(3, 2), volume_ratio) -> <<"high", volume_ratio>>
               [] RLt(R(7, 10), volume_ratio) -> <<"normal", volume_ratio>>
               [] OTHER -> <<"low", volume_ratio>>

\* the table with weak_uptrend read as an uptrend
PhaseOfAnyUptrend(bars, trend, volatility, volume) ==
    CASE trend = "sideways" /\ volume = "low" -> <<"accumulation", R(7, 10)>>
      [] trend \in {"weak_uptrend", "uptrend", "strong_uptrend"} -> <<"markup", R(6, 10)>>
      [] trend = "sideways" /\ volatility = "high" -> <<"distribution", R(65, 100)>>
      [] trend \in {"downtrend", "strong_downtrend"} -> <<"markdown", R(75, 100)>>
      [] OTHER -> <<"accumulation", R(1, 2)>>

\* MarketPhaseDetector.detect: (phase, confidence)
PhaseOf(bars, trend, volatility, volume) ==
    CASE trend = "sideways" /\ volume = "low" -> <<"accumulation", R(7, 10)>>
      [] trend \in {"uptrend", "strong_uptrend"} ->
            IF volume \in {"high", "spike"}
            THEN <<"markup", R(8, 10)>>
            ELSE <<"markup", R(6, 10)>>
      [] trend = "sideways" /\ volatility = "high" -> <<"distribution", R(65, 100)>>
      [] trend \in {"downtrend", "strong_downtrend"} -> <<"markdown", R(75, 100)>>
      [] OTHER -> <<"accumulation", R(1, 2)>>

phase_detect(bars, trend, volatility, volume) ==
    last' = [op |-> "phase_detect", args |-> <<bars, trend, volatility, volume>>,
             value |-> PhaseOf(bars, trend, volatility, volume)]

\* no bars have been handed to the detector yet
InitRegimeDetector == df = None

\* rsi.iloc[-1] if not pd.isna(rsi.iloc[-1]) else 50
CurrentRsi(rsi) == IF rsi = None THEN R(50, 1) ELSE Unwrap(rsi)

\* MarketRegimeDetector.analyze: the result dict of the four detectors
Analyze(bars) ==
    LET trend == TrendDetect(bars.n_bars, bars.adx, bars.slope_of)
        vol_state == VolatilityOf(bars.atr_percentile)
        volume == VolumeDetect(bars.volume)
        phase == PhaseOf(bars, trend.trend, vol_state, volume[1])
    IN  [trend |-> trend.trend,
         trend_confidence |-> trend.confidence,
         volatility |-> vol_state,
         volatility_percentile |-> bars.atr_percentile,
         volume |-> volume[1],
         volume_ratio |-> volume[2],
         market_phase |-> phase[1],
         phase_confidence |-> phase[2],
         overall_confidence |-> RDiv(RAdd(trend.confidence, phase[2]), R(2, 1)),
         rsi |-> CurrentRsi(bars.rsi),
         adx |-> IF "adx" \in DOMAIN trend.details THEN trend.details.adx ELSE Zero]

analyze(bars) == last' = [op |-> "analyze", args |-> <<bars>>, value |-> Analyze(bars)]

(***************************************************************************)
(* Initial state of the components other than RiskManager, CircuitBreaker  *)
(***************************************************************************)
InitExt ==
    /\ InitThreads
    /\ InitBandit
    /\ InitCtx
    /\ InitTracker
    /\ InitStrategies
    /\ InitSelector(DefaultStrategies)
    /\ InitEpsilonGreedy(ArmNames)
    /\ InitRegimeDetector

(***************************************************************************)
(* Specifications                                                          *)
(***************************************************************************)
NoCall == [op |-> "init", args |-> <<>>, value |-> None]

\* a RiskManager and a CircuitBreaker constructed at StartTime
Init ==
    /\ now = StartTime
    /\ InitCB
    /\ \E c \in TotalCapitals : InitRM(c)
    /\ InitExt
    /\ last = NoCall

TickRM == Tick(TickStep, MaxTime) /\ UNCHANGED <<cbvars, rmvars, extvars>>

CheckPositionAllowed ==
    \E s \in StrategyNames, n \in OpenPositions :
        check_position_allowed(s, "BTC/USDT", n) /\ UNCHANGED <<now, cbvars, extvars>>

CalculatePositionSize ==
    \E s \in StrategyNames, c \in Confidences, k \in Stakes, sl \in StopLosses :
        calculate_position_size(s, c, k, One, sl) /\ UNCHANGED <<now, cbvars, extvars>>

RecordTrade ==
    /\ Len(trade_history) < MaxTrades
    /\ \E s \in StrategyNames, p \in Profits :
        record_trade(s, "BTC/USDT", p, "entry", "exit") /\ UNCHANGED <<now, cbvars, extvars>>

UpdatePositionCount ==
    \E s \in PositionNames, d \in PositionDeltas :
        /\ Get(strategy_positions, s, 0) + d <= MaxPositionCount
        /\ update_position_count(s, d)
        /\ UNCHANGED <<now, cbvars, extvars>>

Next ==
    \/ TickRM
    \/ CheckPositionAllowed
    \/ CalculatePositionSize
    \/ RecordTrade
    \/ UpdatePositionCount

Spec == Init /\ [][Next]_vars

\* Sizing runs: trades and position updates change the capital and the open
\* positions, calculate_position_size is called with every input
CalculatePositionSizeAny ==
    \E s \in SizingNames, c \in SizingConfidences,
       k \in SizingStakes, sl \in SizingStopLosses :
        calculate_position_size(s, c, k, One, sl) /\ UNCHANGED <<now, cbvars, extvars>>

RecordTradeSizing ==
    /\ Len(trade_history) < MaxTrades
    /\ \E p \in SizingProfits :
        record_trade("TrendFollowing", "BTC/USDT", p, "entry", "exit")
            /\ UNCHANGED <<now, cbvars, extvars>>

NextSize ==
    \/ RecordTradeSizing
    \/ UpdatePositionCount
    \/ CalculatePositionSizeAny

SpecSize == Init /\ [][NextSize]_vars

\* Busy-day runs: one strategy trades up to its daily-trade cap
RecordTradeDay ==
    /\ Len(trade_history) < MaxDayTrades
    /\ \E p \in DayProfits :
        /\ p # Zero =>
             Len(SelectSeq(trade_history, LAMBDA r : r.profit_pct # Zero)) < MaxLosses
        /\ record_trade("TrendFollowing", "BTC/USDT", p, "entry", "exit")
        /\ UNCHANGED <<now, cbvars, extvars>>

NextDay ==
    \/ TickRM
    \/ CheckPositionAllowed
    \/ RecordTradeDay
    \/ UpdatePositionCount

SpecDay == Init /\ [][NextDay]_vars

\* Concurrent runs: two threads each make one record_trade call on a
\* RiskManager just constructed
ThreadCall ==
    \E t \in Threads, s \in StrategyNames, p \in ThreadProfits :
        ThreadAppend(t, s, p)

ThreadStep ==
    \E t \in Threads :
        \/ ThreadReadPnl(t)
        \/ ThreadWritePnl(t)
        \/ ThreadReadCapital(t)
        \/ ThreadWriteCapital(t)
        \/ ThreadReadPeak(t)
        \/ ThreadWritePeak(t)
        \/ ThreadReadCount(t)
        \/ ThreadWriteCount(t)

NextThreads ==
    \/ ThreadCall /\ last' = [op |-> "record_trade", args |-> <<>>, value |-> None]
                  /\ UNCHANGED <<now, cbvars, ssvars, egvars, mrvars, tsvars, ctxvars, ptvars>>
    \/ ThreadStep /\ UNCHANGED <<now, cbvars, ssvars, egvars, mrvars, tsvars, ctxvars, ptvars, last>>

SpecThreads == Init /\ [][NextThreads]_vars

\* inputs of the selector calls
SampleMaps ==
    {[n \in ArmSet |-> IF n = "Grid" THEN R(3, 4) ELSE R(1, 4)],
     [n \in ArmSet |-> R(3, 4)]}

UpdateNames == {"TrendFollowing", "Unknown"}

Rewards == {R(-15, 100), R(-5, 100), Zero, R(10, 100)}

MaxPulls == 2

MaxAlpha == 2

MaxFloorSteps == 2

\* the arm may still be updated within the bounds of the model
Updatable(arm) ==
    /\ RLt(arm.distribution.alpha, R(MaxAlpha, 1))
    /\ RLt(arm.distribution.beta, RAdd(One, R(MaxFloorSteps, 10)))

\* a ThompsonSamplingSelector with a state file, its restarts and the
\* crashes of its process while save_state is writing
SelectStrategy ==
    /\ \A n \in ArmSet : arms[n].total_pulls < MaxPulls
    /\ \E samples \in SampleMaps : select_strategy(samples, None)
    /\ UNCHANGED <<now, cbvars, rmvars, ssvars, egvars, mrvars, thvars, ctxvars, ptvars>>

Update ==
    /\ \E n \in UpdateNames, reward \in Rewards :
          /\ n \in ArmSet => Updatable(arms[n])
          /\ update(n, reward)
    /\ UNCHANGED <<now, cbvars, rmvars, ssvars, egvars, mrvars, thvars, ctxvars, ptvars>>

FinishSave ==
    finish_save /\ UNCHANGED <<now, cbvars, rmvars, ssvars, egvars, mrvars, thvars, ctxvars, ptvars>>

Restart ==
    /\ ~saving
    /\ restart("restart")
    /\ UNCHANGED <<now, cbvars, rmvars, ssvars, egvars, mrvars, thvars, ctxvars, ptvars>>

Crash ==
    /\ saving
    /\ restart("crash")
    /\ UNCHANGED <<now, cbvars, rmvars, ssvars, egvars, mrvars, thvars, ctxvars, ptvars>>

NextBandit ==
    \/ TickRM
    \/ SelectStrategy
    \/ Update
    \/ FinishSave
    \/ Restart
    \/ Crash

SpecBandit == Init /\ [][NextBandit]_vars

\* StrategyArm objects called directly, with any reward
RawRewards == {R(-1, 2), Zero, R(1, 2)}

arm_pull(n) ==
    /\ arms' = [arms EXCEPT ![n] = ArmPull(@, now)]
    /\ last' = [op |-> "arm_pull", args |-> <<n>>, value |-> None]
    /\ UNCHANGED <<selection_history, state_file, saving>>

arm_update(n, reward) ==
    /\ arms' = [arms EXCEPT ![n] = ArmUpdate(@, reward)]
    /\ last' = [op |-> "arm_update", args |-> <<n, reward>>, value |-> None,
                before |-> arms[n]]
    /\ UNCHANGED <<selection_history, state_file, saving>>

StrategyArmPull ==
    /\ \E n \in ArmSet : arms[n].total_pulls < MaxPulls /\ arm_pull(n)
    /\ UNCHANGED <<now, cbvars, rmvars, ssvars, egvars, mrvars, thvars, ctxvars, ptvars>>

StrategyArmUpdate ==
    /\ \E n \in ArmSet, reward \in RawRewards :
          Updatable(arms[n]) /\ arm_update(n, reward)
    /\ UNCHANGED <<now, cbvars, rmvars, ssvars, egvars, mrvars, thvars, ctxvars, ptvars>>

NextBeta ==
    \/ StrategyArmPull
    \/ StrategyArmUpdate

SpecBeta == Init /\ [][NextBeta]_vars

\* a ContextualBandit and its restarts
ContextInputs == {"trending", "volatile"}

CtxUpdateNames == {"TrendFollowing", "Unknown"}

CtxRewards == {R(-15, 100), R(10, 100)}

CtxSelectStrategy ==
    /\ \E context \in ContextInputs, samples \in SampleMaps :
          /\ \A n \in ArmSet :
                samplers[SamplerOf(context)].arms[n].total_pulls < MaxPulls
          /\ ctx_select_strategy(context, samples)
    /\ UNCHANGED <<now, cbvars, rmvars, ssvars, egvars, mrvars, thvars, tsvars, ptvars>>

CtxUpdate ==
    /\ \E context \in ContextInputs, n \in CtxUpdateNames, reward \in CtxRewards :
          /\ n \in ArmSet => Updatable(samplers[SamplerOf(context)].arms[n])
          /\ ctx_update(context, n, reward)
    /\ UNCHANGED <<now, cbvars, rmvars, ssvars, egvars, mrvars, thvars, tsvars, ptvars>>

CtxRestart ==
    /\ ctx_restart
    /\ UNCHANGED <<now, cbvars, rmvars, ssvars, egvars, mrvars, thvars, tsvars, ptvars>>

NextCtx ==
    \/ CtxSelectStrategy
    \/ CtxUpdate
    \/ CtxRestart

SpecCtx == Init /\ [][NextCtx]_vars

\* PerformanceTracker instances started one after another on one data_dir
TrackerStrategies == {"TrendFollowing", "Grid"}

TrackerProfits == {R(-4, 100), R(5, 100)}

MaxTrackerTrades == 3

PtRecordTrade ==
    /\ Len(pt_recorded) < MaxTrackerTrades
    /\ \E strategy \in TrackerStrategies, profit_ratio \in TrackerProfits :
          pt_record_trade(strategy, "BTC/USDT", "long", R(100, 1),
                          RMul(R(100, 1), RAdd(One, profit_ratio)), profit_ratio,
                          RMul(R(100, 1), profit_ratio), 60,
                          [trend |-> "uptrend"], "entry", "exit")
    /\ UNCHANGED <<now, cbvars, rmvars, ssvars, egvars, mrvars, thvars, tsvars, ctxvars>>

PtInit ==
    /\ pt_init
    /\ UNCHANGED <<now, cbvars, rmvars, ssvars, egvars, mrvars, thvars, tsvars, ctxvars>>

\* inputs of the queries
LookbackHours == {1, 24}

QueryConditions ==
    {[trend |-> "sideways", volatility |-> "normal"],
     [trend |-> "weak_uptrend", volatility |-> "low"],
     [trend |-> "uptrend", volatility |-> "normal"],
     [trend |-> "sideways", volatility |-> "extreme"],
     [trend |-> "choppy", volatility |-> "normal"],
     [trend |-> "uptrend"],
     EmptyDict}

GetStrategyStats ==
    /\ \E strategy \in TrackerStrategies, lookback_hours \in LookbackHours :
          get_strategy_stats(strategy, lookback_hours)
    /\ UNCHANGED <<now, cbvars, rmvars, ssvars, egvars, mrvars, thvars, tsvars, ctxvars>>

GetAllStrategyStats ==
    /\ \E lookback_hours \in LookbackHours : get_all_strategy_stats(lookback_hours)
    /\ UNCHANGED <<now, cbvars, rmvars, ssvars, egvars, mrvars, thvars, tsvars, ctxvars>>

GetBestStrategyForCondition ==
    /\ \E market_condition \in QueryConditions, lookback_hours \in LookbackHours :
          get_best_strategy_for_condition(market_condition, lookback_hours)
    /\ UNCHANGED <<now, cbvars, rmvars, ssvars, egvars, mrvars, thvars, tsvars, ctxvars>>

GetPerformanceComparison ==
    /\ \E lookback_hours \in LookbackHours : get_performance_comparison(lookback_hours)
    /\ UNCHANGED <<now, cbvars, rmvars, ssvars, egvars, mrvars, thvars, tsvars, ctxvars>>

NextTracker ==
    \/ TickRM
    \/ PtRecordTrade
    \/ PtInit

SpecTracker == Init /\ [][NextTracker]_vars

\* one PerformanceTracker, its log and the queries made on it
NextLog ==
    \/ PtRecordTrade
    \/ GetStrategyStats
    \/ GetAllStrategyStats
    \/ GetBestStrategyForCondition
    \/ GetPerformanceComparison

SpecLog == Init /\ [][NextLog]_vars

\* a PerformanceTracker constructed on a data_dir that holds the trades of
\* earlier runs
RECURSIVE Repeat(_, _)
Repeat(x, n) == IF n <= 0 THEN <<>> ELSE <<x>> \o Repeat(x, n - 1)

RECURSIVE FilesOf(_)
FilesOf(trades) ==
    IF trades = <<>> THEN EmptyDict
    ELSE SaveTrade(FilesOf(SubSeq(trades, 1, Len(trades) - 1)), trades[Len(trades)])

\* a trade recorded at time t
TradeAt(t, strategy, profit_ratio, market_condition) ==
    TradeResult(t, strategy, "BTC/USDT", "long", R(100, 1),
                RMul(R(100, 1), RAdd(One, profit_ratio)), profit_ratio,
                RMul(R(100, 1), profit_ratio), 60, market_condition,
                "entry", "exit")

InitLoaded(trades) ==
    /\ now = StartTime
    /\ InitCB
    /\ \E c \in TotalCapitals : InitRM(c)
    /\ InitThreads
    /\ InitBandit
    /\ InitCtx
    /\ InitStrategies
    /\ InitSelector(DefaultStrategies)
    /\ InitEpsilonGreedy(ArmNames)
    /\ InitRegimeDetector
    /\ pt_trades = trades
    /\ pt_files = FilesOf(trades)
    /\ pt_recorded = trades
    /\ pt_damage = EmptyDict
    /\ last = NoCall

\* the earlier trades: a winning trade of two hours before the start, a
\* losing one of exactly one hour before, and half an hour before the start
\* wins of 0.02, losses of -0.01 and flat trades of TrendFollowing and a win
\* of Grid
MaxWinning == 7

MaxLosing == 3

StatsLogs ==
    {Repeat(TradeAt(StartTime - 120, "TrendFollowing", R(2, 100), [trend |-> "uptrend"]), a)
     \o Repeat(TradeAt(StartTime - 60, "TrendFollowing", R(-1, 100), [trend |-> "uptrend"]), b)
     \o Repeat(TradeAt(StartTime - 30, "TrendFollowing", R(2, 100), [trend |-> "uptrend"]), w)
     \o Repeat(TradeAt(StartTime - 30, "TrendFollowing", R(-1, 100), [trend |-> "uptrend"]), l)
     \o Repeat(TradeAt(StartTime - 30, "TrendFollowing", Zero, [trend |-> "uptrend"]), z)
     \o Repeat(TradeAt(StartTime - 30, "Grid", R(2, 100), [trend |-> "uptrend"]), g) :
        a \in 0..1, b \in 0..1, w \in 0..MaxWinning, l \in 0..MaxLosing,
        z \in 0..1, g \in 0..1}

InitStats == \E trades \in StatsLogs : InitLoaded(trades)

NextStats ==
    \/ TickRM
    \/ GetStrategyStats
    \/ GetAllStrategyStats
    \/ GetPerformanceComparison

SpecStats == InitStats /\ [][NextStats]_vars

\* the earlier trades: for each of two strategies up to MaxMatching trades of
\* one profit ratio under one stored condition, those of TrendFollowing old
\* or recent, and possibly one more TrendFollowing trade in a far regime
MaxMatching == 3

StoredConditions ==
    {[trend |-> "sideways", volatility |-> "normal"],
     [trend |-> "weak_uptrend", volatility |-> "low"],
     [trend |-> "uptrend", volatility |-> "normal"],
     [trend |-> "sideways", volatility |-> "extreme"],
     [trend |-> "choppy", volatility |-> "normal"]}

BestLogs ==
    {Repeat(TradeAt(t, "TrendFollowing", p, c1), n1)
     \o Repeat(TradeAt(StartTime - 30, "TrendFollowing", R(5, 100),
                       [trend |-> "strong_downtrend", volatility |-> "extreme"]), x)
     \o Repeat(TradeAt(StartTime - 30, "Grid", R(1, 100), c2), n2) :
        t \in {StartTime - 120, StartTime - 60}, p \in {R(-1, 100), R(1, 100), R(2, 100)},
        c1 \in StoredConditions, c2 \in StoredConditions,
        n1 \in 0..MaxMatching, n2 \in 0..MaxMatching, x \in 0..1}

InitBest == \E trades \in BestLogs : InitLoaded(trades)

NextBest == GetBestStrategyForCondition

SpecBest == InitBest /\ [][NextBest]_vars

\* the regimes the strategies are scored on: every bucket of trend,
\* volatility and volume, ADX and RSI on and between the thresholds of the
\* three strategies, and every key possibly missing
TrendBuckets ==
    {"strong_downtrend", "downtrend", "weak_downtrend", "sideways",
     "weak_uptrend", "uptrend", "strong_uptrend"}

VolatilityBuckets == {"low", "normal", "high", "extreme"}

VolumeBuckets == {"low", "normal", "high", "spike"}

AdxValues == {10, 15, 20, 25, 30, 35, 40}

RsiValues == {20, 25, 30, 35, 50, 65, 70, 75, 80}

\* the dict without the keys that hold "" or -1
WithoutMissing(f) ==
    [k \in {x \in DOMAIN f : IF x \in {"adx", "rsi"} THEN f[x] # -1 ELSE f[x] # ""} |-> f[k]]

FitnessConditions ==
    {WithoutMissing(f) :
        f \in [trend : TrendBuckets \cup {""}, volatility : VolatilityBuckets \cup {""},
               volume : VolumeBuckets \cup {""}, adx : AdxValues \cup {-1},
               rsi : RsiValues \cup {-1}]}

\* the three sub-strategies scoring the regime of one cycle
InitFitness ==
    /\ now = StartTime
    /\ InitCB
    /\ \E c \in TotalCapitals : InitRM(c)
    /\ InitThreads
    /\ InitBandit
    /\ InitCtx
    /\ InitTracker
    /\ last_fitness_score = [n \in ReferenceStrategies |-> Zero]
    /\ regime \in FitnessConditions
    /\ InitSelector(DefaultStrategies)
    /\ InitEpsilonGreedy(ArmNames)
    /\ InitRegimeDetector
    /\ last = NoCall

CalculateFitnessScore ==
    /\ \E name \in ReferenceStrategies : calculate_fitness_score(name)
    /\ UNCHANGED <<now, cbvars, rmvars, thvars, tsvars, ctxvars, ptvars, egvars, mrvars>>
    /\ UNCHANGED <<strategies, performance_history, ss_selection_history,
                   last_switch_time, current_strategy>>

NextFitness == CalculateFitnessScore

SpecFitness == InitFitness /\ [][NextFitness]_vars

\* the clock of the selector: the switch interval of 30 minutes ends at the
\* second tick
TickStepSel == 15

MaxTimeSel == 1460

TickSel == Tick(TickStepSel, MaxTimeSel) /\ UNCHANGED <<cbvars, rmvars, extvars>>

\* at most MaxSelections selections in a run
MaxSelections == 3

\* regimes of the selector calls: Grid 0.9 and MeanReversion 0.55; every
\* score below its threshold; Grid 0.7 and MeanReversion 0.8; Grid 0.75 and
\* MeanReversion 0.9
SelectorConditions ==
    {[trend |-> "sideways", volatility |-> "low", volume |-> "normal", adx |-> 10, rsi |-> 50],
     [trend |-> "weak_uptrend", volatility |-> "extreme", volume |-> "low", adx |-> 20, rsi |-> 50],
     [trend |-> "sideways", volatility |-> "normal", volume |-> "normal", adx |-> 22, rsi |-> 28],
     [trend |-> "sideways", volatility |-> "low", volume |-> "normal", adx |-> 22, rsi |-> 20]}

TopNs == {-1, 0, 1, 2, 3}

SelectBestStrategy ==
    /\ Len(ss_selection_history) < MaxSelections
    /\ \E market_condition \in SelectorConditions : select_best_strategy(market_condition)
    /\ UNCHANGED <<now, cbvars, rmvars, thvars, tsvars, ctxvars, ptvars, egvars, mrvars>>

SelectEnsemble ==
    /\ Len(ss_selection_history) < MaxSelections
    /\ \E market_condition \in SelectorConditions, top_n \in TopNs :
          select_ensemble(market_condition, top_n)
    /\ UNCHANGED <<now, cbvars, rmvars, thvars, tsvars, ctxvars, ptvars, egvars, mrvars>>

\* a StrategySelector holding the three reference strategies
NextSelector ==
    \/ TickSel
    \/ SelectBestStrategy
    \/ SelectEnsemble

SpecSelector == Init /\ [][NextSelector]_vars

\* selectors constructed with other lists of sub-strategies, and with none
Registries ==
    {<<>>, <<"Grid">>, <<"MeanReversion", "TrendFollowing">>, DefaultStrategies}

InitEnsemble ==
    /\ now = StartTime
    /\ InitCB
    /\ \E c \in TotalCapitals : InitRM(c)
    /\ InitThreads
    /\ InitBandit
    /\ InitCtx
    /\ InitTracker
    /\ InitStrategies
    /\ \E names \in Registries : InitSelector(names)
    /\ InitEpsilonGreedy(ArmNames)
    /\ InitRegimeDetector
    /\ last = NoCall

NextEnsemble ==
    \/ SelectBestStrategy
    \/ SelectEnsemble

SpecEnsemble == InitEnsemble /\ [][NextEnsemble]_vars

\* updates under registered and unregistered names
MaxResults == 2

ResultNames == {"TrendFollowing", "Unknown"}

ResultProfits == {R(-1, 100), R(2, 100)}

\* how many results or rewards the dict holds
RECURSIVE TotalLen(_)
TotalLen(d) ==
    IF DOMAIN d = {} THEN 0
    ELSE LET k == CHOOSE x \in DOMAIN d : TRUE
         IN  Len(d[k]) + TotalLen([x \in DOMAIN d \ {k} |-> d[x]])

RecordTradeResult ==
    /\ TotalLen(performance_history) < MaxResults
    /\ \E strategy_name \in ResultNames, profit \in ResultProfits :
          record_trade_result(strategy_name, profit, [trend |-> "uptrend"])
    /\ UNCHANGED <<now, cbvars, rmvars, thvars, tsvars, ctxvars, ptvars, egvars, mrvars>>

EgUpdate ==
    /\ TotalLen(rewards) < MaxResults
    /\ \E strategy_name \in ResultNames, reward \in ResultProfits :
          eg_update(strategy_name, reward)
    /\ UNCHANGED <<now, cbvars, rmvars, thvars, tsvars, ctxvars, ptvars, ssvars, mrvars>>

NextUnknown ==
    \/ Update
    \/ FinishSave
    \/ EgUpdate
    \/ RecordTradeResult

SpecUnknown == Init /\ [][NextUnknown]_vars

\* the same with day files that cannot be written or read
PtRecordTradeFails ==
    /\ Len(pt_recorded) < MaxTrackerTrades
    /\ \E strategy \in TrackerStrategies, profit_ratio \in TrackerProfits,
          truncated \in BOOLEAN :
          pt_record_trade_oserror(strategy, "BTC/USDT", "long", R(100, 1),
                                  RMul(R(100, 1), RAdd(One, profit_ratio)),
                                  profit_ratio, RMul(R(100, 1), profit_ratio), 60,
                                  [trend |-> "uptrend"], "entry", "exit", truncated)
    /\ UNCHANGED <<now, cbvars, rmvars, ssvars, egvars, mrvars, thvars, tsvars, ctxvars>>

PtDamageFile ==
    /\ \E date_str \in DOMAIN pt_files \ DOMAIN pt_damage,
          k \in 0..MaxTrackerTrades :
          pt_damage_file(date_str, k)
    /\ UNCHANGED <<now, cbvars, rmvars, ssvars, egvars, mrvars, thvars, tsvars, ctxvars>>

NextFaults ==
    \/ TickRM
    \/ PtRecordTrade
    \/ PtRecordTradeFails
    \/ PtDamageFile
    \/ PtInit

SpecFaults == Init /\ [][NextFaults]_vars

\* a CircuitBreaker constructed at StartTimeCB
InitBreaker ==
    /\ now = StartTimeCB
    /\ InitCB
    /\ \E c \in TotalCapitals : InitRM(c)
    /\ InitExt
    /\ last = NoCall

TickCB == Tick(TickStepCB, MaxTimeCB) /\ UNCHANGED <<cbvars, rmvars, extvars>>

CheckAndTripCB ==
    \E v \in Volatilities, p \in PriceChanges, s \in VolumeSpikes :
        CheckAndTrip(v, p, s) /\ UNCHANGED <<now, rmvars, extvars>>

ResetCB == Reset /\ UNCHANGED <<now, rmvars, extvars>>

NextCB == TickCB \/ CheckAndTripCB \/ ResetCB

SpecCB == InitBreaker /\ [][NextCB]_vars

\* the series the detectors are given: one bar short of and exactly the
\* minimum length; ADX on and around 20, 25 and 40 or NaN; EMA slopes in
\* quarter percents, exact as floats, whose means fall on, below and above
\* 0, 0.5 and 1
BarCounts == {MinBars - 1, MinBars}

AdxReadings == {None} \cup {Some(R(a, 1)) : a \in {18, 20, 22, 25, 30, 40, 41, 50}}

SlopeReadings == {R(-2, 1), R(-3, 4), Zero, R(3, 4), R(2, 1)}

SlopeMaps == [EmaPeriods -> SlopeReadings]

AtrPercentiles == {10, 50, 80, 96}

VolumeReadings ==
    {None, <<R(50, 1), R(100, 1)>>, <<R(200, 1), R(100, 1)>>, <<R(300, 1), R(100, 1)>>,
     <<R(100, 1), Zero>>}

RsiReadings == {None, Some(R(28, 1))}

Series ==
    [n_bars : BarCounts, adx : AdxReadings, slope_of : SlopeMaps,
     atr_percentile : AtrPercentiles, volume : VolumeReadings, rsi : RsiReadings]

\* the components other than the regime detector, as constructed
InitRest ==
    /\ now = StartTime
    /\ InitCB
    /\ \E c \in TotalCapitals : InitRM(c)
    /\ InitThreads
    /\ InitBandit
    /\ InitCtx
    /\ InitTracker
    /\ InitStrategies
    /\ InitSelector(DefaultStrategies)
    /\ InitEpsilonGreedy(ArmNames)
    /\ last = NoCall

\* the detector analysing the bars of one cycle
InitRegime == InitRest /\ df \in Series

TdDetect == td_detect(df) /\ UNCHANGED <<now, cbvars, rmvars, extvars>>

AnalyzeSeries == analyze(df) /\ UNCHANGED <<now, cbvars, rmvars, extvars>>

NextRegime == TdDetect \/ AnalyzeSeries

SpecRegime == InitRegime /\ [][NextRegime]_vars

\* the phase detector over cycles: strongly rising, flat and strongly
\* falling bars of normal and high volatility, without volume or of low
\* volume
PhaseSeries ==
    [n_bars : {MinBars}, adx : {Some(R(41, 1))},
     slope_of : {[p \in EmaPeriods |-> s] : s \in {R(-2, 1), Zero, R(2, 1)}},
     atr_percentile : {50, 80}, volume : {None, <<R(50, 1), R(100, 1)>>}, rsi : {None}]

InitPhase == InitRest /\ df \in PhaseSeries

\* the next cycle brings other bars
NextBars ==
    /\ df' \in PhaseSeries \ {df}
    /\ UNCHANGED <<now, cbvars, rmvars, thvars, tsvars, ctxvars, ptvars, ssvars, egvars, last>>

PhaseDetect ==
    /\ \E trend \in TrendBuckets, volatility \in VolatilityBuckets, volume \in VolumeBuckets :
          phase_detect(df, trend, volatility, volume)
    /\ UNCHANGED <<now, cbvars, rmvars, extvars>>

NextPhase == NextBars \/ PhaseDetect \/ AnalyzeSeries

SpecPhase == InitPhase /\ [][NextPhase]_vars

\* Cooldown runs: two configured strategies trade shortly before midnight;
\* the clock moves in steps that divide their cooldowns of 20 and 15 minutes
TickStepCool == 5

MaxTimeCool == 1455

MaxCoolTrades == 2

CoolNames == {"TrendFollowing", "Grid"}

CoolProfits == {R(-4, 100), R(5, 100)}

TickCool == Tick(TickStepCool, MaxTimeCool) /\ UNCHANGED <<cbvars, rmvars, extvars>>

CheckPositionAllowedCool ==
    \E s \in CoolNames :
        check_position_allowed(s, "BTC/USDT", 0) /\ UNCHANGED <<now, cbvars, extvars>>

RecordTradeCool ==
    /\ Len(trade_history) < MaxCoolTrades
    /\ \E s \in CoolNames, p \in CoolProfits :
        record_trade(s, "BTC/USDT", p, "entry", "exit") /\ UNCHANGED <<now, cbvars, extvars>>

NextCool == TickCool \/ CheckPositionAllowedCool \/ RecordTradeCool

SpecCool == Init /\ [][NextCool]_vars

\* a trade result recorded at time t
ResultAt(t, profit) ==
    [timestamp |-> t, profit |-> profit, market_condition |-> [trend |-> "uptrend"]]

\* a selector that has recorded wins trades with a profit, then losses
\* trades with a loss, before the run starts
WinsThenLosses(wins, losses) ==
    Repeat(ResultAt(StartTime - 1, R(2, 100)), wins)
        \o Repeat(ResultAt(StartTime - 1, R(-1, 100)), losses)

\* Tuned runs: the selector has the results of five trades for some of its
\* strategies (multipliers 0.7 and 1.3) and selects once per cycle, first
\* possibly in a sideways regime, then in the regime of the run
StrongTrendRegimes ==
    [trend : {"strong_uptrend", "strong_downtrend"}, volatility : VolatilityBuckets,
     volume : VolumeBuckets, adx : {10, 22, 40}, rsi : {20, 50}]

SidewaysRegimes ==
    {[trend |-> "sideways", volatility |-> "low", volume |-> "normal", adx |-> 10, rsi |-> 50],
     [trend |-> "sideways", volatility |-> "normal", volume |-> "normal", adx |-> 22, rsi |-> 28]}

TunedRegimes == StrongTrendRegimes \cup SelectorConditions

InitTuned ==
    /\ now = StartTime
    /\ InitCB
    /\ \E c \in TotalCapitals : InitRM(c)
    /\ InitThreads
    /\ InitBandit
    /\ InitCtx
    /\ InitTracker
    /\ last_fitness_score = [n \in ReferenceStrategies |-> Zero]
    /\ regime \in TunedRegimes
    /\ strategies = DefaultStrategies
    /\ performance_history \in
          [TrendFollowing : {<<>>, WinsThenLosses(0, 5)},
           Grid : {<<>>, WinsThenLosses(5, 0)},
           MeanReversion : {<<>>, WinsThenLosses(5, 0), WinsThenLosses(0, 5)}]
    /\ ss_selection_history = <<>>
    /\ last_switch_time = None
    /\ current_strategy = None
    /\ InitEpsilonGreedy(ArmNames)
    /\ InitRegimeDetector
    /\ last = NoCall

\* one selection per cycle
CycleOpen == Len(ss_selection_history) <= (now - StartTime) \div TickStepSel

SelectFirst ==
    /\ ss_selection_history = <<>>
    /\ \E market_condition \in SidewaysRegimes : select_best_strategy(market_condition)
    /\ UNCHANGED <<now, cbvars, rmvars, thvars, tsvars, ctxvars, ptvars, egvars, mrvars>>

SelectInRegime ==
    /\ CycleOpen
    /\ select_best_strategy(regime)
    /\ UNCHANGED <<now, cbvars, rmvars, thvars, tsvars, ctxvars, ptvars, egvars, mrvars>>

NextTuned == TickSel \/ SelectFirst \/ SelectInRegime

SpecTuned == InitTuned /\ [][NextTuned]_vars

\* Multiplier runs: histories of 0, 3, 4 and 19 results, one older result
\* before the 19, and up to MaxNewResults results recorded in the run
MaxNewResults == 2

PerfNames == {"Grid", "TrendFollowing", "Unknown"}

PerfProfits == {R(-1, 100), Zero, R(2, 100)}

PerfHistories ==
    {WinsThenLosses(w, n - w) : w \in {0, 1}, n \in {3, 4, 19}}
        \cup {WinsThenLosses(n, 0) : n \in {0, 3, 4, 19}}
        \cup {WinsThenLosses(1, 0) \o WinsThenLosses(0, 19),
              WinsThenLosses(0, 1) \o WinsThenLosses(19, 0)}

InitPerf ==
    /\ now = StartTime
    /\ InitCB
    /\ \E c \in TotalCapitals : InitRM(c)
    /\ InitThreads
    /\ InitBandit
    /\ InitCtx
    /\ InitTracker
    /\ InitStrategies
    /\ strategies = DefaultStrategies
    /\ \E h \in PerfHistories :
          performance_history = [TrendFollowing |-> <<>>, Grid |-> h, MeanReversion |-> <<>>]
    /\ ss_selection_history = <<>>
    /\ last_switch_time = None
    /\ current_strategy = None
    /\ InitEpsilonGreedy(ArmNames)
    /\ InitRegimeDetector
    /\ last = NoCall

\* the results recorded in the run
NewResults(history) == SelectSeq(history, LAMBDA r : r.timestamp >= StartTime)

RecordTradeResultPerf ==
    /\ Len(NewResults(performance_history["Grid"]))
          + Len(NewResults(performance_history["TrendFollowing"])) < MaxNewResults
    /\ \E strategy_name \in PerfNames, profit \in PerfProfits :
          record_trade_result(strategy_name, profit, [trend |-> "uptrend"])
    /\ UNCHANGED <<now, cbvars, rmvars, thvars, tsvars, ctxvars, ptvars, egvars, mrvars>>

GetPerformanceMultiplier ==
    /\ \E strategy_name \in PerfNames : get_performance_multiplier(strategy_name)
    /\ UNCHANGED <<now, cbvars, rmvars, thvars, tsvars, ctxvars, ptvars, egvars, mrvars>>

SelectBestStrategyPerf ==
    /\ ss_selection_history = <<>>
    /\ \E market_condition \in SidewaysRegimes : select_best_strategy(market_condition)
    /\ UNCHANGED <<now, cbvars, rmvars, thvars, tsvars, ctxvars, ptvars, egvars, mrvars>>

NextPerf == RecordTradeResultPerf \/ GetPerformanceMultiplier \/ SelectBestStrategyPerf

SpecPerf == InitPerf /\ [][NextPerf]_vars

\* Runs of a strategy without a StrategyRiskConfig: it trades, loses and
\* opens positions; it and a configured strategy are checked
UnconfiguredNames == {"Custom"}

CheckedNames == {"Custom", "TrendFollowing"}

RecordTradeCustom ==
    /\ Len(trade_history) < MaxTrades
    /\ \E s \in UnconfiguredNames, p \in Profits :
        record_trade(s, "BTC/USDT", p, "entry", "exit") /\ UNCHANGED <<now, cbvars, extvars>>

UpdatePositionCountCustom ==
    \E s \in UnconfiguredNames, d \in PositionDeltas :
        /\ Get(strategy_positions, s, 0) + d <= MaxPositionCount
        /\ update_position_count(s, d)
        /\ UNCHANGED <<now, cbvars, extvars>>

CheckPositionAllowedCustom ==
    \E s \in CheckedNames, n \in OpenPositions :
        check_position_allowed(s, "BTC/USDT", n) /\ UNCHANGED <<now, cbvars, extvars>>

NextCustom ==
    \/ TickRM
    \/ RecordTradeCustom
    \/ UpdatePositionCountCustom
    \/ CheckPositionAllowedCustom

SpecCustom == Init /\ [][NextCustom]_vars

(***************************************************************************)
(* RiskManager and CircuitBreaker side by side: the two objects of one    *)
(* process, each called in any order                                      *)
(***************************************************************************)
\* trades recorded in a run beside the breaker
MaxHaltTrades == 1

HaltProfits == {R(-16, 100), R(5, 100)}

HaltPriceChanges == {Zero, R(11, 100)}

CheckAndTripHalt ==
    \E v \in Volatilities, p \in HaltPriceChanges :
        CheckAndTrip(v, p, One) /\ UNCHANGED <<now, rmvars, extvars>>

RecordTradeHalt ==
    /\ Len(trade_history) < MaxHaltTrades
    /\ \E p \in HaltProfits :
        record_trade("TrendFollowing", "BTC/USDT", p, "entry", "exit")
            /\ UNCHANGED <<now, cbvars, extvars>>

NextHalt ==
    \/ TickRM
    \/ CheckAndTripHalt
    \/ ResetCB
    \/ RecordTradeHalt
    \/ CheckPositionAllowed
    \/ CalculatePositionSize

SpecHalt == Init /\ [][NextHalt]_vars

(***************************************************************************)
(* RiskManager with its status report                                     *)
(***************************************************************************)
GetRiskStatus == get_risk_status /\ UNCHANGED <<now, cbvars, extvars>>

RecordTradeStatus ==
    /\ Len(trade_history) < MaxTrades
    /\ \E p \in Profits :
        record_trade("TrendFollowing", "BTC/USDT", p, "entry", "exit")
            /\ UNCHANGED <<now, cbvars, extvars>>

NextStatus ==
    \/ TickRM
    \/ RecordTradeStatus
    \/ CheckPositionAllowed
    \/ GetRiskStatus

SpecStatus == Init /\ [][NextStatus]_vars

(***************************************************************************)
(* CircuitBreaker with trip() called from outside as well                  *)
(***************************************************************************)
ManualReasons == {<<"manual">>}

TripCB == \E r \in ManualReasons : Trip(r) /\ UNCHANGED <<now, rmvars, extvars>>

NextLatch == TickCB \/ CheckAndTripHalt \/ TripCB \/ ResetCB

SpecLatch == InitBreaker /\ [][NextLatch]_vars

(***************************************************************************)
(* Properties of CircuitBreaker (checked under SpecCB)                     *)
(***************************************************************************)
\* the inputs <<volatility, price_change_1h, volume_spike>> meet a trip
\* condition: "extreme", or |change| > 10%, or spike > 5x
MeetsTripCondition(args) ==
    \/ args[1] = "extreme"
    \/ RLt(R(1, 10), args[2])
    \/ RLt(args[2], R(-1, 10))
    \/ RLt(R(5, 1), args[3])

CheckOfTripped == last'.op = "check_and_trip" /\ is_tripped

\* C2: once tripped, a check_and_trip call made no later than
\* auto_reset_minutes after the trip returns True and leaves the breaker
\* tripped whatever the inputs; the tripped state ends only by reset() or by
\* a check_and_trip call after the timeout.
C2_StickyUntilTimeout ==
    [][/\ (CheckOfTripped /\ now - Unwrap(trip_time) <= AutoResetMinutes)
            => (last'.value = TRUE /\ is_tripped')
       /\ (is_tripped /\ ~is_tripped')
            => last'.op \in {"reset", "check_and_trip"}]_vars

\* a calm call made exactly auto_reset_minutes after the trip found the
\* breaker tripped and returned True
C2_Witness ==
    /\ last.op = "check_and_trip"
    /\ ~MeetsTripCondition(last.args)
    /\ last.value = TRUE
    /\ is_tripped
    /\ now - Unwrap(trip_time) = AutoResetMinutes

\* C3: the first check_and_trip call made more than auto_reset_minutes after
\* the trip resets the latch before it looks at the inputs: calm inputs give
\* False and an untripped breaker with reason and trip time cleared, tripping
\* inputs give True and a breaker tripped anew at the time of the call.  The
\* breaker leaves the tripped state only by such a call or by reset().
C3_AutoResetOnCheck ==
    [][/\ (CheckOfTripped /\ now - Unwrap(trip_time) > AutoResetMinutes)
            => IF MeetsTripCondition(last'.args)
               THEN /\ last'.value = TRUE
                    /\ is_tripped'
                    /\ trip_time' = Some(now)
                    /\ trip_reason' # None
               ELSE /\ last'.value = FALSE
                    /\ ~is_tripped'
                    /\ trip_reason' = None
                    /\ trip_time' = None
       /\ (is_tripped /\ ~is_tripped')
            => \/ last'.op = "reset"
               \/ /\ last'.op = "check_and_trip"
                  /\ now - Unwrap(trip_time) > AutoResetMinutes]_vars

\* a call made after the timeout released the latch (it logged the reset of
\* an earlier trip) and, its inputs being calm, returned False
C3_Witness ==
    /\ last.op = "check_and_trip"
    /\ Len(last.log) = 1
    /\ last.log[1][1] = "Circuit breaker reset"
    /\ ~MeetsTripCondition(last.args)
    /\ last.value = FALSE
    /\ ~is_tripped
    /\ trip_reason = None
    /\ trip_time = None

\* C4: an untripped breaker trips (True, is_tripped, a reason, the time of the
\* call) exactly when the inputs meet a trip condition; otherwise the call
\* returns False and the breaker stays untripped.
C4_TripsIffCondition ==
    [][(last'.op = "check_and_trip" /\ ~is_tripped)
            => IF MeetsTripCondition(last'.args)
               THEN /\ last'.value = TRUE
                    /\ is_tripped'
                    /\ trip_reason' # None
                    /\ trip_time' = Some(now)
               ELSE /\ last'.value = FALSE
                    /\ ~is_tripped'
                    /\ trip_reason' = None
                    /\ trip_time' = None]_vars

\* a call with a change of exactly 10% and a spike of exactly 5x left the
\* breaker untripped
C4_Witness ==
    /\ last.op = "check_and_trip"
    /\ last.args = <<"normal", R(-10, 100), R(5, 1)>>
    /\ last.value = FALSE
    /\ ~is_tripped

(***************************************************************************)
(* Properties of RiskManager (checked under Spec)                          *)
(***************************************************************************)
\* every strategy name a caller may pass: the configured ones and one more
AllNames == (DOMAIN strategy_configs) \cup {"Custom"}

IsCheck == last.op = "check_position_allowed"

\* the drawdown of the capital from its peak, as a fraction of the peak
Drawdown == RDiv(RSub(peak_capital, current_capital), peak_capital)

\* the checks (a)..(f) of the claim in their order, for strategy s and n open
\* positions: <<the check fails, its reason>>
C1_Checks(s, n) ==
    LET cfg == strategy_configs[s]
        known == s \in DOMAIN strategy_configs
    IN  << <<n >= 5, "Max portfolio positions reached">>,
           <<RLeq(daily_pnl, R(-5, 100)), "Daily loss limit reached">>,
           <<RLeq(R(15, 100), Drawdown), "Max drawdown reached">>,
           <<known /\ Get(strategy_positions, s, 0) >= cfg.max_positions,
             "Strategy max positions reached">>,
           <<known /\ Get(strategy_daily_trades, s, 0) >= cfg.max_daily_trades,
             "Strategy daily trade limit reached">>,
           <<known /\ s \in DOMAIN strategy_last_loss
                   /\ now < strategy_last_loss[s] + cfg.cooldown_after_loss,
             "Strategy in cooldown">> >>

C1_FirstFailing(checks) ==
    IF \E i \in 1..Len(checks) : checks[i][1]
    THEN LET i == CHOOSE i \in 1..Len(checks) :
                    checks[i][1] /\ \A j \in 1..(i - 1) : ~checks[j][1]
         IN  <<FALSE, checks[i][2]>>
    ELSE <<TRUE, "OK">>

\* C1: check_position_allowed returns (False, reason of the first failing
\* check in the order a..f) or (True, "OK"); when one of the portfolio-level
\* checks (a)-(c) fails the verdict is not-allowed for every strategy name.
C1_CheckOrder ==
    IsCheck =>
        /\ last.value = C1_FirstFailing(C1_Checks(last.args[1], last.args[3]))
        /\ (\E i \in 1..3 : C1_Checks(last.args[1], last.args[3])[i][1])
            => \A s \in AllNames :
                    Verdict(s, last.args[3], daily_pnl, strategy_daily_trades)[1] = FALSE

\* a call for a strategy that is at its position cap, at its daily-trade cap
\* and in cooldown, with the portfolio-level checks passing, reported the
\* position cap
C1_Witness ==
    /\ IsCheck
    /\ last.args[1] = "TrendFollowing"
    /\ \A i \in 1..3 : ~C1_Checks("TrendFollowing", last.args[3])[i][1]
    /\ \A i \in 4..6 : C1_Checks("TrendFollowing", last.args[3])[i][1]
    /\ last.value = <<FALSE, "Strategy max positions reached">>

\* C5 as stated: whenever the drawdown exceeds max_drawdown_pct the call
\* returns not-allowed with a reason that mentions drawdown, and a drawdown
\* below the limit is not reported as the reason.
C5_DrawdownReason ==
    IsCheck =>
        /\ RLt(R(15, 100), Drawdown) => last.value = <<FALSE, "Max drawdown reached">>
        /\ RLt(Drawdown, R(15, 100)) => last.value[2] # "Max drawdown reached"

\* C5 amended: whenever the drawdown exceeds max_drawdown_pct the call returns
\* not-allowed, and the reason is the drawdown exactly when neither the
\* open-position cap nor the daily-loss limit blocks first; a drawdown below
\* the limit is never the reason.
C5_DrawdownBlocks ==
    IsCheck =>
        /\ RLt(R(15, 100), Drawdown) =>
            /\ last.value[1] = FALSE
            /\ (last.value[2] = "Max drawdown reached")
                <=> (last.args[3] < 5 /\ RLt(R(-5, 100), daily_pnl))
        /\ RLt(Drawdown, R(15, 100)) => last.value[2] # "Max drawdown reached"

\* peak 1000, capital 840: the call was blocked by the drawdown check
C5_Witness ==
    /\ IsCheck
    /\ peak_capital = R(1000, 1)
    /\ current_capital = R(840, 1)
    /\ last.value = <<FALSE, "Max drawdown reached">>

\* C6: peak_capital never decreases and is never below current_capital.
C6_PeakMonotonic ==
    /\ RLeq(current_capital, peak_capital)
    /\ [][RLeq(peak_capital, peak_capital') /\ RLeq(current_capital', peak_capital')]_vars

\* the peak was raised above the starting capital and the capital then fell
C6_Witness ==
    /\ RLt(portfolio_config.total_capital, peak_capital)
    /\ RLt(current_capital, portfolio_config.total_capital)

\* the trades of trade_history recorded on the local date of now
RECURSIVE SumProfit(_)
SumProfit(trades) ==
    IF trades = <<>> THEN Zero
    ELSE RAdd(trades[1].profit_pct, SumProfit(Tail(trades)))

TodaysTrades == SelectSeq(trade_history, LAMBDA r : Date(r.timestamp) = Date(now))

TodaysTradesOf(s) == SelectSeq(TodaysTrades, LAMBDA r : r.strategy = s)

\* C7: at every check_position_allowed call daily_pnl is the sum of profit_pct
\* of exactly the trades recorded on the current local date and each
\* strategy's daily-trade counter is the number of its trades of that date.
C7_DailyCountersAreTodays ==
    IsCheck =>
        /\ daily_pnl = SumProfit(TodaysTrades)
        /\ \A s \in AllNames :
                Get(strategy_daily_trades, s, 0) = Len(TodaysTradesOf(s))

IsRecord == last'.op = "record_trade"

\* C8: record_trade(strategy, profit) adds profit to daily_pnl, multiplies
\* current_capital by (1 + profit), raises peak_capital to the new capital if
\* higher, adds one to that strategy's daily-trade counter and to no other,
\* and stamps that strategy's last-loss time only when profit < 0; a trade
\* with profit >= 0 leaves every last-loss time unchanged.
C8_RecordTradeEffect ==
    [][IsRecord =>
        LET s == last'.args[1]
            profit == last'.args[3]
        IN  /\ daily_pnl' = RAdd(daily_pnl, profit)
            /\ current_capital' = RMul(current_capital, RAdd(One, profit))
            /\ peak_capital' = IF RLt(peak_capital, current_capital')
                               THEN current_capital' ELSE peak_capital
            /\ \A k \in AllNames :
                    Get(strategy_daily_trades', k, 0) =
                        Get(strategy_daily_trades, k, 0) + (IF k = s THEN 1 ELSE 0)
            /\ \A k \in AllNames \ {s} :
                    Get(strategy_last_loss', k, None) = Get(strategy_last_loss, k, None)
            /\ IF RLt(profit, Zero)
               THEN strategy_last_loss'[s] = now
               ELSE strategy_last_loss' = strategy_last_loss]_vars

\* a winning trade was recorded for a strategy whose cooldown clock, set by
\* an earlier loss, is still what it was
C8_Witness ==
    /\ last.op = "record_trade"
    /\ RLt(Zero, last.args[3])
    /\ last.args[1] \in DOMAIN strategy_last_loss
    /\ strategy_last_loss[last.args[1]] < now

(***************************************************************************)
(* Properties of calculate_position_size (checked under SpecSize)          *)
(***************************************************************************)
IsSizing == last.op = "calculate_position_size"

\* C9: for every state and every argument combination the size returned is
\* never greater than proposed_stake and never less than 0.3 x proposed_stake.
C9_SizeWithinStake ==
    IsSizing =>
        /\ RLeq(last.value, last.args[3])
        /\ RLeq(RMul(R(3, 10), last.args[3]), last.value)

\* with stop_loss_pct = 0 and a configured strategy whose headroom is used up
\* the call returned the floor, 0.3 x a positive stake
C9_Witness ==
    /\ IsSizing
    /\ last.args[1] = "TrendFollowing"
    /\ last.args[5] = Zero
    /\ RLt(Zero, last.args[3])
    /\ Get(strategy_positions, "TrendFollowing", 0) = 2
    /\ last.value = RMul(R(3, 10), last.args[3])

\* the risk-derived position of the claim: capital x risk_per_trade_pct /
\* |stop_loss_pct|, scaled by the strategy's size multiplier (1 for a
\* strategy without configuration) and by 0.5 + 0.5 x confidence
RiskDerivedPosition(args) ==
    LET multiplier == IF args[1] \in DOMAIN strategy_configs
                      THEN strategy_configs[args[1]].position_size_multiplier
                      ELSE One
        stop == IF RLt(args[5], Zero) THEN RNeg(args[5]) ELSE args[5]
    IN  RMul(RMul(RDiv(RMul(current_capital, R(2, 100)), stop), multiplier),
             RAdd(R(1, 2), RMul(R(1, 2), args[2])))

\* a confidence score, in [0, 1]
UnitConfidence(c) == RLeq(Zero, c) /\ RLeq(c, One)

\* C10 as stated: for stop_loss_pct # 0 the size returned never exceeds the
\* risk-derived position.
C10_SizeWithinRisk ==
    (IsSizing /\ last.args[5] # Zero /\ UnitConfidence(last.args[2])) =>
        RLeq(last.value, RiskDerivedPosition(last.args))

\* C10 amended: for stop_loss_pct # 0 the size returned never exceeds the
\* larger of the risk-derived position and the floor 0.3 x proposed_stake; it
\* is above the risk-derived position only when it is that floor.
C10_SizeWithinRiskOrFloor ==
    (IsSizing /\ last.args[5] # Zero /\ UnitConfidence(last.args[2])) =>
        \/ RLeq(last.value, RiskDerivedPosition(last.args))
        \/ last.value = RMul(R(3, 10), last.args[3])

\* a call whose risk-derived position lies between the floor and the stake
\* returned exactly the risk-derived position
C10_Witness ==
    /\ IsSizing
    /\ last.args[5] # Zero
    /\ UnitConfidence(last.args[2])
    /\ RLt(RMul(R(3, 10), last.args[3]), RiskDerivedPosition(last.args))
    /\ RLt(RiskDerivedPosition(last.args), last.args[3])
    /\ last.value = RiskDerivedPosition(last.args)

\* the capital headroom of the claim: current_capital x max_capital_pct minus
\* open positions of the strategy x proposed_stake
Headroom(args) ==
    RSub(RMul(current_capital, strategy_configs[args[1]].max_capital_pct),
         RMul(R(Get(strategy_positions, args[1], 0), 1), args[3]))

IsConfiguredSizing == IsSizing /\ last.args[1] \in DOMAIN strategy_configs

\* C11 as stated: for a configured strategy the size returned never exceeds
\* the strategy's remaining capital headroom.
C11_SizeWithinHeadroom ==
    IsConfiguredSizing => RLeq(last.value, Headroom(last.args))

\* C11 amended: for a configured strategy the size returned never exceeds the
\* larger of the remaining capital headroom and the floor 0.3 x
\* proposed_stake; it is above the headroom only when it is that floor.
C11_SizeWithinHeadroomOrFloor ==
    IsConfiguredSizing =>
        \/ RLeq(last.value, Headroom(last.args))
        \/ last.value = RMul(R(3, 10), last.args[3])

\* a call whose headroom lies between the floor and both the stake and the
\* risk-derived position returned exactly the headroom
C11_Witness ==
    /\ IsConfiguredSizing
    /\ last.args[5] # Zero
    /\ RLt(RMul(R(3, 10), last.args[3]), Headroom(last.args))
    /\ RLt(Headroom(last.args), last.args[3])
    /\ RLt(Headroom(last.args), RiskDerivedPosition(last.args))
    /\ last.value = Headroom(last.args)

(***************************************************************************)
(* Properties: concurrent record_trade calls                               *)
(***************************************************************************)
BothDone == \A t \in Threads : th_pc[t] = "done"

\* the trades the finished threads recorded for a strategy
CallsOf(strategy_name) == {t \in Threads : th_args[t][1] = strategy_name}

\* C12: when two record_trade calls on one RiskManager have both finished,
\* under every interleaving of their steps daily_pnl has grown by the sum of
\* both profits, current_capital has been multiplied by both (1 + profit)
\* factors, peak_capital >= current_capital, the daily-trade counters count
\* both trades and trade_history holds both records.
C12_ConcurrentAccounting ==
    BothDone =>
        /\ daily_pnl = RAdd(th_args["T1"][2], th_args["T2"][2])
        /\ \E c \in TotalCapitals :
              current_capital = RMul(RMul(c, RAdd(One, th_args["T1"][2])),
                                     RAdd(One, th_args["T2"][2]))
        /\ RLeq(current_capital, peak_capital)
        /\ \A s \in StrategyNames :
              Get(strategy_daily_trades, s, 0) = Cardinality(CallsOf(s))
        /\ Len(trade_history) = 2

(***************************************************************************)
(* Properties: BetaDistribution, StrategyArm, ThompsonSamplingSelector     *)
(***************************************************************************)
Alpha(a, n) == a[n].distribution.alpha

Beta(a, n) == a[n].distribution.beta

\* C13: BetaDistribution.update is monotonic: a reward > 0 strictly increases
\* alpha and leaves beta unchanged; a reward <= 0 strictly increases beta, by
\* at least 0.1 for a zero reward, and leaves alpha unchanged.
C13_BetaUpdateMonotonic ==
    [][last'.op = "arm_update" =>
        LET n == last'.args[1]
            reward == last'.args[2]
        IN  IF RLt(Zero, reward)
            THEN /\ RLt(Alpha(arms, n), Alpha(arms', n))
                 /\ Beta(arms', n) = Beta(arms, n)
            ELSE /\ RLt(Beta(arms, n), Beta(arms', n))
                 /\ Alpha(arms', n) = Alpha(arms, n)
                 /\ reward = Zero =>
                        RLeq(RAdd(Beta(arms, n), R(1, 10)), Beta(arms', n))]_vars

\* an arm that had already been updated took a zero reward and its beta
\* moved by exactly 0.1
C13_Witness ==
    /\ last.op = "arm_update"
    /\ last.args[2] = Zero
    /\ last.before.distribution # NewArm.distribution
    /\ Beta(arms, last.args[1]) = RAdd(last.before.distribution.beta, R(1, 10))
    /\ Alpha(arms, last.args[1]) = last.before.distribution.alpha

IsUpdate == last.op = "update" /\ last.args[1] \in ArmSet

\* C14: ThompsonSamplingSelector.update(name, reward) for a registered arm
\* increments the arm's alpha by the mapped reward and leaves beta unchanged
\* if reward > 0; otherwise it increments the arm's beta by at least 0.1 and
\* leaves alpha unchanged.
C14_UpdateBySignOfReward ==
    [][IsUpdate' =>
        LET n == last'.args[1]
            reward == last'.args[2]
        IN  IF RLt(Zero, reward)
            THEN /\ Alpha(arms', n) = RAdd(Alpha(arms, n), NormalizedReward(reward))
                 /\ Beta(arms', n) = Beta(arms, n)
            ELSE /\ RLeq(RAdd(Beta(arms, n), R(1, 10)), Beta(arms', n))
                 /\ Alpha(arms', n) = Alpha(arms, n)]_vars

\* the calls made on one selector object
IsSelectorCall == last.op \in {"select_strategy", "update", "save_state"}

\* C15: for every arm of a selector started from the Beta(1, 1) prior, after
\* any sequence of select_strategy and update calls alpha >= 1 and beta >= 1
\* hold, and neither parameter ever decreases.
C15_ParametersAtLeastOne ==
    /\ [](\A n \in ArmSet : RLeq(One, Alpha(arms, n)) /\ RLeq(One, Beta(arms, n)))
    /\ [][IsSelectorCall' =>
            \A n \in ArmSet : /\ RLeq(Alpha(arms, n), Alpha(arms', n))
                              /\ RLeq(Beta(arms, n), Beta(arms', n))]_vars

\* an arm that has been pulled has grown in both parameters by updates
C15_Witness ==
    /\ last.op = "update"
    /\ \E n \in ArmSet : /\ RLt(One, Alpha(arms, n))
                         /\ RLt(One, Beta(arms, n))
                         /\ arms[n].total_pulls > 0

\* C16 as stated: an arm's state is mutated only by update: select_strategy
\* leaves the state of every arm unchanged, and an update of one arm leaves
\* every other arm's state unchanged.
C16_OnlyUpdateMutates ==
    [][/\ last'.op = "select_strategy" => arms' = arms
       /\ IsUpdate' => \A m \in ArmSet \ {last'.args[1]} : arms'[m] = arms[m]]_vars

\* C16 amended: alpha, beta and total_reward of an arm are changed only by an
\* update of that arm, which leaves its total_pulls and last_pulled and every
\* other arm unchanged; select_strategy adds one to total_pulls and stamps
\* last_pulled of every arm and changes nothing else; an update for an
\* unregistered name and save_state change no arm.
C16_FrameOfSelectAndUpdate ==
    [][/\ last'.op = "select_strategy" =>
            \A n \in ArmSet :
                arms'[n] = [arms[n] EXCEPT !.total_pulls = @ + 1,
                                           !.last_pulled = Some(now)]
       /\ IsUpdate' =>
            /\ \A m \in ArmSet \ {last'.args[1]} : arms'[m] = arms[m]
            /\ arms'[last'.args[1]].total_pulls = arms[last'.args[1]].total_pulls
            /\ arms'[last'.args[1]].last_pulled = arms[last'.args[1]].last_pulled
       /\ (last'.op = "update" /\ ~IsUpdate') => arms' = arms
       /\ last'.op = "save_state" => arms' = arms]_vars

\* an update of one arm has been made after a selection pulled both arms at
\* an earlier time: the other arm still carries the pull
C16_Witness ==
    /\ IsUpdate
    /\ arms[last.args[1]].distribution # NewArm.distribution
    /\ \E m \in ArmSet \ {last.args[1]} :
          /\ arms[m].total_pulls > 0
          /\ arms[m].last_pulled # None
          /\ arms[m].last_pulled # Some(now)
          /\ arms[m].distribution = NewArm.distribution

\* the fields of an arm that save_state writes
Persisted(arm) ==
    [alpha |-> arm.distribution.alpha, beta |-> arm.distribution.beta,
     total_pulls |-> arm.total_pulls, total_reward |-> arm.total_reward]

\* C17: a new selector constructed with the same strategy names and state
\* file after any sequence of select_strategy and update calls holds, for
\* every arm, the alpha, beta, total_pulls and total_reward the old selector
\* held in memory.
C17_RestartKeepsArms ==
    last.op = "restart" =>
        \A n \in ArmSet : Persisted(arms[n]) = Persisted(last.before[n])

\* C19: the state file never holds an empty or partial snapshot, also while
\* save_state is writing, so a selector restarted after a crash during
\* save_state finds a complete snapshot and holds what that snapshot holds.
C19_SaveIsAtomic ==
    /\ state_file.kind # "partial"
    /\ last.op = "crash" =>
          /\ state_file.kind = "json"
          /\ \A n \in ArmSet :
                Persisted(arms[n]) = Unwrap(state_file.doc).arms[n]

\* the old ContextualBandit made no selection, only update calls
OnlyUpdated(old) ==
    \A c \in DOMAIN old, n \in ArmSet : old[c].arms[n].total_pulls = 0

\* C18: after ContextualBandit.update calls for any contexts, a newly
\* constructed ContextualBandit with the same strategy names and contexts
\* holds, for every context sampler and the default sampler, the per-arm
\* alpha, beta, pull and reward totals the old one held.
C18_ContextualRestartKeepsArms ==
    (last.op = "ctx_restart" /\ OnlyUpdated(last.before)) =>
        \A c \in DOMAIN samplers, n \in ArmSet :
            Persisted(samplers[c].arms[n]) = Persisted(last.before[c].arms[n])

(***************************************************************************)
(* Properties: PerformanceTracker                                          *)
(***************************************************************************)
\* how many times trade occurs in trades
Occurrences(trades, trade) ==
    Cardinality({i \in DOMAIN trades : trades[i] = trade})

\* the same trades, each as many times, in any order
SameTrades(a, b) ==
    /\ Len(a) = Len(b)
    /\ \A i \in DOMAIN a : Occurrences(a, a[i]) = Occurrences(b, a[i])

InTimestampOrder(trades) ==
    \A i, j \in DOMAIN trades : i < j => trades[i].timestamp <= trades[j].timestamp

\* C20: a PerformanceTracker newly constructed on the directory holds exactly
\* the trades recorded so far, each once, with every field equal, in
\* non-decreasing timestamp order.
C20_TradeLogReconstructible ==
    last.op = "pt_init" =>
        /\ SameTrades(pt_trades, pt_recorded)
        /\ InTimestampOrder(pt_trades)

\* trades of two dates, two of them in one day file, have been loaded by a
\* new tracker
C20_Witness ==
    /\ last.op = "pt_init"
    /\ Cardinality(DOMAIN pt_files) = 2
    /\ \E d \in DOMAIN pt_files : Len(pt_files[d]) = 2
    /\ Len(pt_trades) = 3
    /\ pt_trades[1].timestamp < pt_trades[3].timestamp
    /\ \E i, j \in DOMAIN pt_trades : pt_trades[i].strategy # pt_trades[j].strategy

\* the records of every day file, as the files hold them
Stored == {<<d, i>> \in (DOMAIN pt_files) \X (1..(MaxTrackerTrades + 1)) :
                i <= Len(pt_files[d])}

\* how many times the trade is in the persisted store
StoredOccurrences(trade) ==
    Cardinality({r \in Stored : pt_files[r[1]][r[2]] = ToDict(trade)})

\* C21: a failure to persist a trade inside record_trade is not raised to the
\* caller, and after the next successful record_trade the persisted store
\* contains every trade of the in-memory log, the missed one and the new one.
C21_MissedTradeCaptured ==
    last.op = "pt_record_trade" =>
        /\ last.value = None
        /\ \A i \in DOMAIN pt_trades :
              Occurrences(pt_trades, pt_trades[i]) <= StoredOccurrences(pt_trades[i])

\* the trades of the in-memory log that belong to the day file of a date
LoadedOf(date_str) ==
    {i \in DOMAIN pt_trades : Date(pt_trades[i].timestamp) = date_str}

\* C22: at startup a day file that cannot be read or parsed contributes no
\* trade to the in-memory log and every trade of every other day file is
\* loaded.
C22_CorruptFileSkipped ==
    last.op = "pt_init" =>
        \A d \in DOMAIN pt_files :
            IF d \in DOMAIN pt_damage
            THEN LoadedOf(d) = {}
            ELSE /\ Cardinality(LoadedOf(d)) = Len(pt_files[d])
                 /\ \A i \in DOMAIN pt_files[d] :
                       Occurrences(pt_trades, FromDict(pt_files[d][i])) =
                       Occurrences(pt_files[d], pt_files[d][i])

\* the operations of the tracker that read the log
TrackerQueries == {"get_strategy_stats", "get_all_strategy_stats",
                   "get_best_strategy_for_condition", "get_performance_comparison"}

\* C27: record_trade adds exactly one TradeResult, the trade of the call, at
\* the end of the in-memory log and leaves the trades before it as they were;
\* get_strategy_stats, get_all_strategy_stats, get_best_strategy_for_condition
\* and get_performance_comparison leave the log as it was.
C27_LogAppendOnly ==
    [][/\ last'.op = "pt_record_trade" =>
            /\ Len(pt_trades') = Len(pt_trades) + 1
            /\ SubSeq(pt_trades', 1, Len(pt_trades)) = pt_trades
            /\ pt_trades'[Len(pt_trades')].strategy = last'.args[1]
            /\ pt_trades'[Len(pt_trades')].profit_ratio = last'.args[2]
            /\ pt_trades'[Len(pt_trades')].timestamp = now
       /\ last'.op \in TrackerQueries => pt_trades' = pt_trades]_vars

\* a query has been answered from a log of three trades, not all alike, the
\* last of which is not the first
C27_Witness ==
    /\ last.op \in TrackerQueries
    /\ Len(pt_trades) = 3
    /\ pt_trades[1] # pt_trades[3]
    /\ pt_trades[1].strategy # pt_trades[2].strategy

\* the places in the log of the trades of the strategy made after the cutoff
\* of the lookback window
InWindow(strategy, lookback_hours) ==
    {i \in DOMAIN pt_trades :
        /\ pt_trades[i].strategy = strategy
        /\ pt_trades[i].timestamp > now - MinutesPerHour * lookback_hours}

\* the sum of the profit ratios of the trades at the places S of the log
RECURSIVE SumOfRatios(_)
SumOfRatios(S) ==
    IF S = {} THEN Zero
    ELSE LET i == CHOOSE j \in S : TRUE
         IN  RAdd(pt_trades[i].profit_ratio, SumOfRatios(S \ {i}))

\* the winning trades among the places S of the log
Winners(S) == {i \in S : RLt(Zero, pt_trades[i].profit_ratio)}

\* the statistics count and sum exactly the trades of the window
FoldsWindow(stats, W) ==
    /\ stats.total_trades = Cardinality(W)
    /\ stats.winning_trades = Cardinality(Winners(W))
    /\ stats.winning_trades + stats.losing_trades = stats.total_trades
    /\ stats.total_profit = SumOfRatios(Winners(W))
    /\ stats.total_loss = SumOfRatios(W \ Winners(W))

\* C28 as stated: get_strategy_stats folds exactly the trades of the strategy
\* inside the window, winning_trades + losing_trades = total_trades, win_rate
\* is winning_trades / total_trades and profit_factor is the sum of the
\* winning ratios over the absolute sum of the losing ones (both read as
\* products, so that nothing is divided by zero).
C28_StatsAreQuotients ==
    last.op = "get_strategy_stats" =>
        LET stats == last.value
        IN  /\ FoldsWindow(stats, InWindow(last.args[1], last.args[2]))
            /\ RMul(WinRate(stats), R(stats.total_trades, 1)) = R(stats.winning_trades, 1)
            /\ RMul(ProfitFactor(stats), RAbs(stats.total_loss)) = stats.total_profit

\* C28, amended: the same fold, a trade with profit ratio 0 counted as losing;
\* win_rate is winning_trades / total_trades when there is a trade and 0.5
\* when there is none; profit_factor is the quotient of the sums when the
\* losing ratios do not sum to 0, and otherwise 10 when there is a winning
\* trade and 1 when there is none.
C28_StatsOfWindow ==
    last.op = "get_strategy_stats" =>
        LET stats == last.value
            W == InWindow(last.args[1], last.args[2])
            wins == SumOfRatios(Winners(W))
            losses == SumOfRatios(W \ Winners(W))
        IN  /\ FoldsWindow(stats, W)
            /\ WinRate(stats) = IF W = {} THEN R(1, 2)
                                ELSE R(Cardinality(Winners(W)), Cardinality(W))
            /\ ProfitFactor(stats) =
                   IF losses # Zero THEN RAbs(RDiv(wins, losses))
                   ELSE IF Winners(W) # {} THEN R(10, 1) ELSE One

\* 7 wins of 0.02 and 3 losses of -0.01 inside the window, among other trades
\* of the log: win_rate 0.7 and profit_factor 14/3
C28_Witness ==
    /\ last.op = "get_strategy_stats"
    /\ last.value.winning_trades = 7
    /\ last.value.losing_trades = 3
    /\ last.value.total_profit = R(14, 100)
    /\ last.value.total_loss = R(-3, 100)
    /\ WinRate(last.value) = R(7, 10)
    /\ ProfitFactor(last.value) = R(14, 3)
    /\ Len(pt_trades) > 11

\* the two regimes have the bucket, and the buckets are equal or next to each
\* other on the ordered scale
BucketsClose(order, stored, query, key) ==
    /\ key \in DOMAIN stored
    /\ key \in DOMAIN query
    /\ \/ stored[key] = query[key]
       \/ \E i, j \in DOMAIN order :
              /\ order[i] = stored[key]
              /\ order[j] = query[key]
              /\ i - j \in {-1, 1}

\* the places in the log of the trades inside the lookback window whose
\* stored regime matches the query
MatchingInWindow(query, lookback_hours) ==
    {i \in DOMAIN pt_trades :
        /\ pt_trades[i].timestamp >= now - MinutesPerHour * lookback_hours
        /\ BucketsClose(TrendOrder, pt_trades[i].market_condition, query, "trend")
        /\ BucketsClose(VolOrder, pt_trades[i].market_condition, query, "volatility")}

\* those of one strategy
OfStrategy(S, strategy) == {i \in S : pt_trades[i].strategy = strategy}

\* the strategies with at least three trades among the places S
Eligible(S) ==
    {strategy \in StrategiesOf(pt_trades) : Cardinality(OfStrategy(S, strategy)) >= 3}

\* the mean profit ratio of the trades of the strategy among the places S
MeanOfStrategy(S, strategy) ==
    RDiv(SumOfRatios(OfStrategy(S, strategy)),
         R(Cardinality(OfStrategy(S, strategy)), 1))

\* C29: for a query regime with a trend and a volatility bucket,
\* get_best_strategy_for_condition considers only the trades inside the
\* lookback window whose stored regime matches the query, a strategy is
\* eligible with at least 3 such trades, the value returned is an eligible
\* strategy with the highest mean profit ratio, together with that mean, and
\* it is none when no strategy is eligible.
C29_BestOfMatchingTrades ==
    (/\ last.op = "get_best_strategy_for_condition"
     /\ {"trend", "volatility"} \subseteq DOMAIN last.args[1]) =>
        LET S == MatchingInWindow(last.args[1], last.args[2])
        IN  IF Eligible(S) = {} THEN last.value = None
            ELSE /\ last.value # None
                 /\ Unwrap(last.value)[1] \in Eligible(S)
                 /\ Unwrap(last.value)[2] = MeanOfStrategy(S, Unwrap(last.value)[1])
                 /\ \A strategy \in Eligible(S) :
                        RLeq(MeanOfStrategy(S, strategy), Unwrap(last.value)[2])

\* two strategies are eligible, with different means, by trades stored under
\* a regime next to the query's, and a trade of the better one in a far
\* regime is left out of its mean
C29_Witness ==
    /\ last.op = "get_best_strategy_for_condition"
    /\ {"trend", "volatility"} \subseteq DOMAIN last.args[1]
    /\ LET S == MatchingInWindow(last.args[1], last.args[2])
       IN  /\ Eligible(S) = {"TrendFollowing", "Grid"}
           /\ last.value = Some(<<"TrendFollowing", R(2, 100)>>)
           /\ MeanOfStrategy(S, "Grid") = R(1, 100)
           /\ \E i \in S : pt_trades[i].market_condition # last.args[1]
           /\ \E i \in DOMAIN pt_trades \ S : pt_trades[i].profit_ratio = R(5, 100)

\* C30: calculate_fitness_score of TrendFollowing, Grid and MeanReversion
\* returns a value in [0, 1] for every regime, whichever of its keys are
\* missing.
C30_FitnessInUnitInterval ==
    last.op = "calculate_fitness_score" =>
        /\ RLeq(Zero, last.value)
        /\ RLeq(last.value, One)

\* Grid has scored a strongly trending regime of extreme volatility that
\* has no volume and no rsi key: both penalties applied
C30_Witness ==
    /\ last.op = "calculate_fitness_score"
    /\ last.args[1] = "Grid"
    /\ DOMAIN last.args[2] = {"trend", "volatility", "adx"}
    /\ last.args[2].trend = "strong_uptrend"
    /\ last.args[2].volatility = "extreme"
    /\ last.value = R(3, 100)
    /\ last_fitness_score["TrendFollowing"] = R(60, 100)

\* C23: ThompsonSamplingSelector.update, EpsilonGreedySelector.update and
\* StrategySelector.record_trade_result called with a strategy name that is
\* not registered return without raising and change no arm, no selection
\* history, no reward list, no counter, no performance history and no state
\* file.
C23_UnknownNameIsNoOp ==
    [][/\ (last'.op = "update" /\ last'.args[1] \notin DOMAIN arms) =>
            /\ UNCHANGED <<tsvars, egvars, ssvars>>
            /\ last'.value = None
       /\ (last'.op = "eg_update" /\ last'.args[1] \notin DOMAIN rewards) =>
            /\ UNCHANGED <<tsvars, egvars, ssvars>>
            /\ last'.value = None
       /\ (last'.op = "record_trade_result"
             /\ last'.args[1] \notin DOMAIN performance_history) =>
            /\ UNCHANGED <<tsvars, egvars, ssvars>>
            /\ last'.value = None]_vars

\* an update for an unregistered name has been made on a selector whose
\* state file has been written, beside an epsilon-greedy selector and a
\* strategy selector that hold results
C23_Witness ==
    /\ last.op = "update"
    /\ last.args[1] \notin DOMAIN arms
    /\ state_file # NoFile
    /\ ~saving
    /\ \E n \in DOMAIN arms : arms[n] # NewArm
    /\ TotalLen(rewards) > 0
    /\ TotalLen(performance_history) > 0

\* the calls that run StrategySelector.select_best_strategy
IsSelection(call) == call.op \in {"select_best_strategy", "select_ensemble"}

C24_EnsembleWeights ==
    last.op = "select_ensemble" =>
        /\ last.value # None
        /\ LET weights == Unwrap(last.value)
               scores == ss_selection_history[Len(ss_selection_history)].all_scores
           IN  /\ SumWeights(weights) = One
               /\ Len(weights) <= last.args[2]
               /\ \A i \in DOMAIN weights : RLt(Zero, weights[i][2])
               /\ (\A n \in DOMAIN scores : scores[n] = Zero) =>
                      weights = << <<"TrendFollowing", One>> >>

\* C25: a select_best_strategy call made less than min_switch_interval after
\* the last switch settles on the incumbent unless some strategy's score in
\* this call is more than 1.2 times the incumbent's.
C25_HysteresisKeepsIncumbent ==
    [][(/\ IsSelection(last')
        /\ current_strategy # None
        /\ last_switch_time # None
        /\ now - Unwrap(last_switch_time) < MinSwitchInterval) =>
            LET scores == ss_selection_history'[Len(ss_selection_history')].all_scores
                incumbent == Unwrap(current_strategy)
            IN  \/ current_strategy' = current_strategy
                \/ \E n \in DOMAIN scores :
                      RLt(RMul(scores[incumbent], R(12, 10)), scores[n])]_vars

(***************************************************************************)
(* Regime detection                                                        *)
(***************************************************************************)
IsTrendCall == last.op \in {"td_detect", "analyze"}

\* the series of the call and the trend and confidence it reported
TrendInput ==
    IF last.op = "analyze"
    THEN last.args[1]
    ELSE [n_bars |-> last.args[1], adx |-> last.args[2], slope_of |-> last.args[3]]

ReportedTrend == last.value.trend

ReportedConfidence ==
    IF last.op = "analyze" THEN last.value.trend_confidence ELSE last.value.confidence

AdxAbove40 == TrendInput.adx # None /\ RLt(R(40, 1), Unwrap(TrendInput.adx))

SumOfSlopes ==
    RAdd(RAdd(TrendInput.slope_of[20], TrendInput.slope_of[50]), TrendInput.slope_of[200])

\* C31 as stated: for a series of at least 200 bars whose current ADX is
\* above 40 and whose EMA20 slope is above 1%, detect and analyze report
\* strong_uptrend with confidence >= 0.7 whatever the EMA50 and EMA200
\* slopes are.
C31_StrongUptrendByFastSlope ==
    (IsTrendCall /\ TrendInput.n_bars >= 200 /\ AdxAbove40
        /\ RLt(One, TrendInput.slope_of[20])) =>
        /\ ReportedTrend = "strong_uptrend"
        /\ RLeq(R(7, 10), ReportedConfidence)

\* C31: for a series of at least 200 bars whose current ADX is above 40 and
\* whose EMA20, EMA50 and EMA200 slopes have a mean above 1%, detect and
\* analyze report strong_uptrend with confidence >= 0.7.
C31_StrongUptrendByMeanSlope ==
    (IsTrendCall /\ TrendInput.n_bars >= 200 /\ AdxAbove40
        /\ RLt(R(3, 1), SumOfSlopes)) =>
        /\ ReportedTrend = "strong_uptrend"
        /\ RLeq(R(7, 10), ReportedConfidence)

\* analyze has reported a strong uptrend for 200 bars with ADX 41 whose
\* EMA20 slope is 0.75% while the slower averages rise by 2%
C31_Witness ==
    /\ last.op = "analyze"
    /\ TrendInput.n_bars = 200
    /\ TrendInput.adx = Some(R(41, 1))
    /\ TrendInput.slope_of[20] = R(3, 4)
    /\ TrendInput.slope_of[50] = R(2, 1)
    /\ TrendInput.slope_of[200] = R(2, 1)
    /\ last.value.trend = "strong_uptrend"
    /\ last.value.trend_confidence = R(95, 100)

\* the phase and confidence a call returned
ReportedPhase(call) ==
    IF call.op = "analyze"
    THEN <<call.value.market_phase, call.value.phase_confidence>>
    ELSE call.value

\* the three classifications the phase was decided on
PhaseInput(call) ==
    IF call.op = "analyze"
    THEN <<call.value.trend, call.value.volatility, call.value.volume>>
    ELSE <<call.args[2], call.args[3], call.args[4]>>

IsPhaseCall(call) == call.op \in {"phase_detect", "analyze"}

\* the phase rules of the claim for one call
PhaseRules(call) ==
    /\ PhaseInput(call)[1] \in TrendBuckets
    /\ PhaseInput(call)[2] \in VolatilityBuckets
    /\ PhaseInput(call)[3] \in VolumeBuckets
    /\ ReportedPhase(call)[1] \in {"accumulation", "markup", "distribution", "markdown"}
    /\ RLeq(Zero, ReportedPhase(call)[2]) /\ RLeq(ReportedPhase(call)[2], One)
    /\ ReportedPhase(call)[1] = "markup" =>
          PhaseInput(call)[1] \in {"uptrend", "strong_uptrend"}
    /\ ReportedPhase(call)[1] = "markdown" =>
          PhaseInput(call)[1] \in {"downtrend", "strong_downtrend"}
    /\ ReportedPhase(call)[1] = "distribution" =>
          PhaseInput(call)[1] = "sideways" /\ PhaseInput(call)[2] = "high"

\* C32: MarketPhaseDetector.detect, called directly or by analyze, returns
\* one of the four phases with a confidence in [0, 1] for every combination
\* of trend, volatility and volume; markup only for uptrend or
\* strong_uptrend, markdown only for downtrend or strong_downtrend,
\* distribution only for a sideways trend with high volatility; and two
\* successive calls on the same three classifications return the same phase
\* and confidence, whatever bars each was given.
C32_PhaseTable ==
    [][/\ IsPhaseCall(last') => PhaseRules(last')
       /\ (IsPhaseCall(last) /\ IsPhaseCall(last') /\ PhaseInput(last) = PhaseInput(last')) =>
              ReportedPhase(last') = ReportedPhase(last)]_vars

\* the detector has returned distribution at 0.65 for a sideways trend of
\* high volatility and spiking volume
C32_Witness ==
    /\ last.op = "phase_detect"
    /\ last.args[2] = "sideways" /\ last.args[3] = "high" /\ last.args[4] = "spike"
    /\ last.value = <<"distribution", R(65, 100)>>

(***************************************************************************)
(* Cooldown after a loss                                                   *)
(***************************************************************************)
\* the times at which a loss of strategy s was recorded
LossTimes(s) ==
    {trade_history[i].timestamp : i \in {j \in DOMAIN trade_history :
        /\ trade_history[j].strategy = s
        /\ RLt(trade_history[j].profit_pct, Zero)}}

\* some loss of s was recorded less than its cooldown ago
CoolingDown(s) ==
    \E t \in LossTimes(s) : now < t + strategy_configs[s].cooldown_after_loss

\* C33: after record_trade recorded a loss of a configured strategy S at t,
\* every check_position_allowed(S) before t + cooldown_after_loss is
\* refused, with the cooldown reason when checks (a)-(e) pass, also across a
\* date rollover; from t + cooldown_after_loss on, and for every strategy
\* without such a loss, the cooldown is not the reason.
C33_CooldownAfterLoss ==
    IsCheck =>
        LET s == last.args[1]
            checks == C1_Checks(s, last.args[3])
        IN  /\ (s \in DOMAIN strategy_configs /\ CoolingDown(s)) =>
                  /\ last.value[1] = FALSE
                  /\ (\A i \in 1..5 : ~checks[i][1]) =>
                        last.value[2] = "Strategy in cooldown"
            /\ last.value[2] = "Strategy in cooldown" =>
                  s \in DOMAIN strategy_configs /\ CoolingDown(s)

\* TrendFollowing lost at 23:50 and Grid is checked and allowed, then
\* TrendFollowing is refused for its cooldown on the next day, at 00:00
C33_Witness ==
    /\ IsCheck
    /\ last.args[1] = "TrendFollowing"
    /\ last.value = <<FALSE, "Strategy in cooldown">>
    /\ LossTimes("TrendFollowing") = {1430}
    /\ LossTimes("Grid") = {}
    /\ now = 1440
    /\ last_daily_reset = 1440

(***************************************************************************)
(* Performance multiplier                                                  *)
(***************************************************************************)
\* the positions of the min(20, n) most recent results of a history
RecentPositions(history) == {i \in DOMAIN history : i > Len(history) - 20}

\* 0.7 + 0.6 x the share of profits above 0 among the most recent results,
\* or 1.0 for a history of fewer than 5 results
MultiplierOf(history) ==
    IF Len(history) < 5 THEN One
    ELSE RAdd(R(7, 10),
              RMul(R(6, 10),
                   R(Cardinality({i \in RecentPositions(history) :
                                     RLt(Zero, history[i].profit)}),
                     Cardinality(RecentPositions(history)))))

\* the results recorded for a name; none for a name that is not registered
ResultsOf(strategy_name) ==
    IF strategy_name \in DOMAIN performance_history
    THEN performance_history[strategy_name]
    ELSE <<>>

\* C35: the performance multiplier of a strategy is 1.0 while fewer than 5
\* results are recorded for it and otherwise 0.7 + 0.6 x (share of results
\* with profit > 0 among its min(20, n) most recent results), so it lies in
\* [0.7, 1.3] and depends on no older result and on no other strategy; it is
\* the factor select_best_strategy applies to the fitness score.
C35_MultiplierOfRecentResults ==
    /\ last.op = "_get_performance_multiplier" =>
          /\ last.value = MultiplierOf(ResultsOf(last.args[1]))
          /\ RLeq(R(7, 10), last.value) /\ RLeq(last.value, R(13, 10))
    /\ last.op = "select_best_strategy" =>
          \A n \in Registered :
              LET adjusted == RMul(FitnessScore(n, last.args[1]), MultiplierOf(ResultsOf(n)))
              IN  Unwrap(last.value)[3][n] =
                      IF RLt(adjusted, R(25, 100)) THEN Zero ELSE adjusted

\* Grid has 21 results, a win followed by 20 losses, and its multiplier was
\* returned as 0.7
C35_Witness ==
    /\ last.op = "_get_performance_multiplier"
    /\ last.args[1] = "Grid"
    /\ Len(performance_history["Grid"]) = 21
    /\ RLt(Zero, performance_history["Grid"][1].profit)
    /\ \A i \in 2..21 : RLt(performance_history["Grid"][i].profit, Zero)
    /\ last.value = R(7, 10)

(***************************************************************************)
(* Selection by adjusted score                                             *)
(***************************************************************************)
\* the step is a call of select_best_strategy that returned
SelectionStep ==
    /\ last'.op = "select_best_strategy"
    /\ last'.value # None
    /\ ss_selection_history' # ss_selection_history

\* before the call there is no incumbent, or the switch interval has passed
HysteresisOff ==
    \/ current_strategy = None
    \/ last_switch_time = None
    \/ now - Unwrap(last_switch_time) >= 30

\* C34: select_best_strategy returns a registered strategy with its entry
\* of all_scores as the score; every entry of all_scores is 0 or at least
\* the minimum-fitness threshold of its strategy (0.25); and when there is
\* no incumbent or min_switch_interval has passed since the last switch, no
\* entry of all_scores is higher than the returned score.
C34_ArgMaxOfAdjustedScores ==
    [][SelectionStep =>
        LET selected == Unwrap(last'.value)[1]
            score == Unwrap(last'.value)[2]
            all_scores == Unwrap(last'.value)[3]
        IN  /\ selected \in Registered
            /\ DOMAIN all_scores = Registered
            /\ score = all_scores[selected]
            /\ \A n \in Registered :
                  all_scores[n] = Zero \/ RLeq(R(25, 100), all_scores[n])
            /\ HysteresisOff =>
                  \A n \in Registered : RLeq(all_scores[n], score)]_vars

\* 30 minutes after the switch to Grid the selector has moved to
\* MeanReversion, whose score of 0.8 is raised to 1.04 by five winning
\* trades, over Grid at 0.7 and TrendFollowing zeroed from 0.21
C34_Witness ==
    /\ last.op = "select_best_strategy"
    /\ Len(ss_selection_history) = 2
    /\ ss_selection_history[1].selected = "Grid"
    /\ ss_selection_history[1].timestamp = 1430
    /\ now = 1460
    /\ ss_selection_history[2].timestamp = 1460
    /\ Unwrap(last.value)[1] = "MeanReversion"
    /\ Unwrap(last.value)[2] = R(104, 100)
    /\ Unwrap(last.value)[3]["Grid"] = R(7, 10)
    /\ Unwrap(last.value)[3]["TrendFollowing"] = Zero

\* C36: for a selector holding the three reference strategies, in a regime
\* of trend strong_uptrend or strong_downtrend select_best_strategy returns
\* TrendFollowing with a positive score and makes it the current strategy,
\* whatever the other regime fields, the recorded results, the incumbent
\* and the time of the last switch; the Grid and MeanReversion scores are
\* zero there.
C36_StrongTrendSelectsTrendFollowing ==
    (/\ last.op = "select_best_strategy"
     /\ last.args[1].trend \in {"strong_uptrend", "strong_downtrend"}) =>
        /\ Unwrap(last.value)[1] = "TrendFollowing"
        /\ RLt(Zero, Unwrap(last.value)[2])
        /\ Unwrap(last.value)[3]["Grid"] = Zero
        /\ Unwrap(last.value)[3]["MeanReversion"] = Zero
        /\ current_strategy = Some("TrendFollowing")

\* Grid, with five winning trades, was selected in a sideways regime; 15
\* minutes later, in a strong downtrend of low volatility, low volume, ADX 10
\* and RSI 20, TrendFollowing with five losing trades replaces it at 0.35
C36_Witness ==
    /\ last.op = "select_best_strategy"
    /\ last.args[1] = [trend |-> "strong_downtrend", volatility |-> "low",
                       volume |-> "low", adx |-> 10, rsi |-> 20]
    /\ Len(performance_history["Grid"]) = 5
    /\ Len(performance_history["TrendFollowing"]) = 5
    /\ Len(ss_selection_history) = 2
    /\ ss_selection_history[1].selected = "Grid"
    /\ ss_selection_history[2].timestamp = ss_selection_history[1].timestamp + 15
    /\ Unwrap(last.value)[1] = "TrendFollowing"
    /\ Unwrap(last.value)[2] = R(35, 100)

(***************************************************************************)
(* Strategies without a risk config                                        *)
(***************************************************************************)
PortfolioReasons ==
    {"Max portfolio positions reached", "Daily loss limit reached", "Max drawdown reached"}

\* C37: for a strategy name without a StrategyRiskConfig,
\* check_position_allowed applies the portfolio-level checks (a)-(c) only:
\* it refuses exactly when one of them fails, with that reason, whatever the
\* open positions, trades of the day and losses recorded under the name.
C37_UnconfiguredNameSeesPortfolioChecksOnly ==
    (IsCheck /\ last.args[1] \notin DOMAIN strategy_configs) =>
        LET checks == C1_Checks("TrendFollowing", last.args[3])
        IN  /\ last.value[1] = ~(\E i \in 1..3 : checks[i][1])
            /\ last.value[2] \in PortfolioReasons \cup {"OK"}
            /\ last.value[1] = (last.value[2] = "OK")

\* Custom holds two open positions, has traded twice today and lost 4% in
\* this minute, and is allowed a position
C37_Witness ==
    /\ IsCheck
    /\ last.args[1] = "Custom"
    /\ last.value = <<TRUE, "OK">>
    /\ Get(strategy_positions, "Custom", 0) = 2
    /\ Get(strategy_daily_trades, "Custom", 0) = 2
    /\ "Custom" \in DOMAIN strategy_last_loss
    /\ strategy_last_loss["Custom"] = now

(***************************************************************************)
(* Properties of RiskManager beside CircuitBreaker (checked under SpecHalt)*)
(***************************************************************************)
BreakerOps == {"check_and_trip", "reset"}

RiskManagerOps == {"check_position_allowed", "calculate_position_size", "record_trade"}

\* the size calculate_position_size computes from the RiskManager's own state
\* for a non-zero stop loss: the risk-derived position, cut to the headroom of
\* a configured strategy, then kept within [0.3 x stake, stake]
SizeFromRiskState(args) ==
    LET capped == IF args[1] \in DOMAIN strategy_configs
                  THEN RMin(RiskDerivedPosition(args), Headroom(args))
                  ELSE RiskDerivedPosition(args)
    IN  RMax(RMin(capped, args[3]), RMul(R(3, 10), args[3]))

\* C38: CircuitBreaker and RiskManager share no state: a breaker call leaves
\* the RiskManager's fields alone and a RiskManager call leaves the breaker's
\* alone, and the verdict of check_position_allowed and the size of
\* calculate_position_size are functions of the RiskManager's state and the
\* arguments only, the same whether the breaker is tripped or not.
C38_BreakerDoesNotGateRiskManager ==
    [][/\ last'.op \in BreakerOps => UNCHANGED rmvars
       /\ last'.op \in RiskManagerOps => UNCHANGED cbvars
       /\ IsCheck
            => last.value = C1_FirstFailing(C1_Checks(last.args[1], last.args[3]))
       /\ (IsSizing /\ last.args[5] # Zero)
            => last.value = SizeFromRiskState(last.args)]_vars

\* with the breaker tripped a check was allowed
C38_Witness ==
    /\ is_tripped
    /\ IsCheck
    /\ last.value = <<TRUE, "OK">>

(***************************************************************************)
(* Properties of get_risk_status (checked under SpecStatus)                *)
(***************************************************************************)
IsStatus == last.op = "get_risk_status"

\* the verdict a check_position_allowed call made now, with no open position,
\* would give: it resets the daily counters of an earlier date first
VerdictNow(s) == Verdict(s, 0, ResetDailyPnl, ResetDailyTrades)

RefusedByLossOrDrawdown(s) ==
    /\ VerdictNow(s)[1] = FALSE
    /\ VerdictNow(s)[2] \in {"Daily loss limit reached", "Max drawdown reached"}

\* C39: is_trading_allowed of get_risk_status is False exactly when a
\* check_position_allowed call made at the same moment, with open positions
\* below the portfolio cap, would be refused by the daily-loss-limit check or
\* the drawdown check, also after a date rollover at which the daily counters
\* have not yet been reset.
C39_StatusAgreesWithCheck ==
    IsStatus =>
        \A s \in AllNames :
            (last.value.is_trading_allowed = FALSE) <=> RefusedByLossOrDrawdown(s)

(***************************************************************************)
(* Properties of the breaker's latch (checked under SpecLatch)             *)
(***************************************************************************)
WithinTimeout == now - Unwrap(trip_time) <= AutoResetMinutes

\* C40: while the breaker is tripped and the timeout has not elapsed,
\* check_and_trip leaves trip_reason and trip_time unchanged for every input,
\* also one that meets a trip condition, so the trip is released by the first
\* check_and_trip call made more than auto_reset_minutes after the time it was
\* set, whatever the inputs seen in between; and in every state reached through
\* check_and_trip, trip and reset, is_tripped is True exactly when trip_time is
\* set.
C40_TripTimeFixedWhileTripped ==
    [][/\ (CheckOfTripped /\ WithinTimeout)
            => UNCHANGED <<is_tripped, trip_reason, trip_time>>
       /\ (CheckOfTripped /\ ~WithinTimeout)
            => /\ last'.log # <<>>
               /\ last'.log[1] = <<"Circuit breaker reset", trip_reason>>
               /\ is_tripped' => trip_time' = Some(now)
       /\ is_tripped <=> trip_time # None
       /\ is_tripped' <=> trip_time' # None]_vars

\* a breaker tripped by trip() was checked later, within the timeout, with
\* extreme volatility and kept its reason and its trip time
C40_Witness ==
    /\ last.op = "check_and_trip"
    /\ MeetsTripCondition(last.args)
    /\ is_tripped
    /\ trip_reason \in ManualReasons
    /\ Unwrap(trip_time) < now
    /\ WithinTimeout

=============================================================================
